---------------------------- MODULE Spec2Model ----------------------------
(***************************************************************************)
(* Model of the decision engine of Suivi_Vignes (src/mildiou_prevention.py *)
(* with the local JSON backend of src/storage.py).                         *)
(*                                                                         *)
(* Conventions                                                             *)
(*   - A calendar date ('YYYY-MM-DD' in the code) is its day number        *)
(*     counted from 2024-01-01 = 0.  ISO strings sort chronologically, so  *)
(*     string comparisons of the code are comparisons of day numbers.      *)
(*   - Temperatures, rainfall, evapotranspiration and scores are kept in   *)
(*     tenths (18.0 degrees = 180, 5.2 mm = 52, a score of 5.6 = 56).      *)
(*   - Python's None is NULL.                                              *)
(*   - The texts of the levels, verdicts and alerts are written without    *)
(*     their accents and pictograms.                                       *)
(*   - The weather store is followed on the dates of JoursSuivis only:     *)
(*     the merge loop handles every date of a batch on its own, so the     *)
(*     projection of the store on a set of dates evolves independently of  *)
(*     the other dates.                                                    *)
(***************************************************************************)
EXTENDS Integers, Sequences, FiniteSets, TLC

VARIABLES
    aujourdhui,          \* datetime.now().date(), as a day number
    pc,                  \* position of the running program
    meteo_historique,    \* SystemeDecision.meteo_historique (in memory)
    meteo_persistee,     \* the stored file meteo_historique.json
    gdd_persiste,        \* the stored file gdd_historique.json
    meteo_data_recent,   \* the batch returned by the last get_meteo_data call
    stade_manuel,        \* parcelle['stade_actuel']
    rfu_max_mm,          \* capacity of the soil reserve of the parcel
    gdd_cumul_actuel,    \* heat units accumulated, as passed to the balance
    dates_utiles,        \* calculer_bilan_rfu: the dates simulated, sorted
    i_date,              \* calculer_bilan_rfu: number of dates simulated
    rfu_actuelle_mm,     \* calculer_bilan_rfu: the carried reserve
    ks_actuel,           \* calculer_bilan_rfu: the last stress coefficient
    rfu_historique_pct,  \* calculer_bilan_rfu: the per-day percentages
    bilan_h,             \* the dict returned by calculer_bilan_rfu
    alerte_stress,       \* afficher_rapport printed the water stress alert
    analyse,             \* the dict returned by the last analyser_parcelle
    analyse_prec,        \* the dict returned by the call before it
    traitements,         \* GestionTraitements.historique['traitements']
    protection_actuelle, \* the last result of calculer_protection_actuelle
    meteo_evenement,     \* the weather day handed to calculer_ipi
    duree_humectation_estimee, \* the wetness duration handed to it, tenths of h
    ipi_value,           \* the index calculer_ipi returned
    parcelles,           \* ConfigVignoble.parcelles: stage and biofix by name
    config_persistee,    \* the parcels of the saved configuration
    dernier_appel,       \* the last update_parcelle_stade_et_date call
    gdd_sum,             \* gdd_sum at the end of the loop of _calculer_gdd
    resultat_gdd,        \* the tuple _calculer_gdd returned
    prevision_stade,     \* the day count _predire_stade_futur returned
    meteo_7j,            \* analyser_parcelle: the last seven days read
    parcelle_analysee,   \* analyser_parcelle: the parcel, stage and cultivars
    risque_infection,    \* what ModeleSimple.calculer_risque_infection returned
    risque_oidium,       \* what ModeleOidium.calculer_risque_infection returned
    historique_alertes,  \* GestionHistoriqueAlertes.historique['campagnes']
    alertes_persistees,  \* the campaigns of the saved history of analyses
    derniere_analyse,    \* the analysis handed to the last ajouter_analyse
    instances,           \* two SystemeDecision instances: position, store, batch
    produits             \* the stored list 'produits', by product id

varsMeteo == <<meteo_historique, meteo_persistee, gdd_persiste,
               meteo_data_recent>>
varsBilan == <<stade_manuel, rfu_max_mm, gdd_cumul_actuel, dates_utiles,
               i_date, rfu_actuelle_mm, ks_actuel, rfu_historique_pct,
               bilan_h, alerte_stress>>
varsDecision == <<analyse, analyse_prec>>
varsProtection == <<traitements, protection_actuelle>>
varsIpi == <<meteo_evenement, duree_humectation_estimee, ipi_value>>
varsConfig == <<parcelles, config_persistee, dernier_appel>>
varsGdd == <<gdd_sum, resultat_gdd, prevision_stade>>
varsRisque == <<meteo_7j, parcelle_analysee, risque_infection, risque_oidium>>
varsAlertes == <<historique_alertes, alertes_persistees, derniere_analyse>>
varsConcurrence == <<instances>>
varsProduits == <<produits>>
\* the variables of the components specified after the stage updates
varsApres == <<varsRisque, varsAlertes, varsConcurrence, varsProduits>>
\* the variables of the components specified after the decision
varsSuite == <<varsProtection, varsIpi, varsConfig, varsGdd, varsApres>>
\* the same without those of the protection
varsSuiteSaufProtection == <<varsIpi, varsConfig, varsGdd, varsApres>>
vars == <<aujourdhui, pc, varsMeteo, varsBilan, varsDecision, varsSuite>>

(***************************************************************************)
(* Values                                                                  *)
(***************************************************************************)
NULL == -9999

\* number of distinct non-null maximal temperatures the API may return,
\* minus one
MaxVarianteTemp == 1

TempMaxVals == {180 + 80 * i : i \in 0..MaxVarianteTemp}
TempMinVals == {80}
PluieVals   == {52}
HumidVals   == {70}
EtpVals     == {21}

\* config.parametres['t_base_gdd'] (tenths of a degree)
T_base == 100
\* fallbacks of the merge (precipitation 0, humidite 60, etp0 3.5)
PluieDefaut == 0
HumidDefaut == 60
EtpDefaut   == 35
\* retention window of the persisted store, in days
Retention == 366
\* window asked from the API: 90 past days, 7 forecast days
JoursPasses == 90
JoursFuturs == 7

ChampsBruts == {"temp_max", "temp_min", "precipitation", "humidite", "etp0"}

(***************************************************************************)
(* Calendar                                                                *)
(***************************************************************************)
Annees == 2024..2029

Bissextile(a) == (a % 4 = 0 /\ a % 100 # 0) \/ a % 400 = 0

\* day number of January 1st of year a
DebutAnnee(a) == (a - 2024) * 365 + ((a - 2021) \div 4)

\* number of days of year a before the first day of month m (m = 13: the
\* length of the year)
JoursAvantMois(m, a) ==
    LET cumul == <<0, 31, 59, 90, 120, 151, 181, 212, 243, 273, 304, 334, 365>>
    IN  cumul[m] + (IF m > 2 /\ Bissextile(a) THEN 1 ELSE 0)

\* datetime(a, m, j).date(), and datetime.strptime of its ISO string
Jour(a, m, j) == DebutAnnee(a) + JoursAvantMois(m, a) + (j - 1)

\* date.year
Annee(d) == CHOOSE a \in Annees : DebutAnnee(a) <= d /\ d < DebutAnnee(a + 1)

\* date.month
Mois(d) ==
    LET a == Annee(d) IN
    CHOOSE m \in 1..12 :
        /\ DebutAnnee(a) + JoursAvantMois(m, a) <= d
        /\ d < DebutAnnee(a) + JoursAvantMois(m + 1, a)

\* the dates of the store the model follows
JourAncien == Jour(2024, 12, 20)
JourRecent == Jour(2026, 1, 5)
JoursSuivis == {JourAncien, JourRecent}
\* the days on which the program runs
JoursExecution ==
    {JourAncien, JourAncien + 1, Jour(2025, 12, 15), JourRecent, JourRecent + 1}

Max2(a, b) == IF a >= b THEN a ELSE b
Min2(a, b) == IF a <= b THEN a ELSE b

(***************************************************************************)
(* MeteoAPI                                                                *)
(***************************************************************************)
\* the raw daily values Open-Meteo may return for one date: every field may
\* be null on its own
DonneesBrutes ==
    [temp_max : TempMaxVals \cup {NULL}, temp_min : TempMinVals \cup {NULL},
     precipitation : PluieVals \cup {NULL}, humidite : HumidVals \cup {NULL},
     etp0 : EtpVals \cup {NULL}]

\* a day for which the API has every field, or none
DonneesCompletes ==
    [temp_max : TempMaxVals, temp_min : TempMinVals, precipitation : PluieVals,
     humidite : HumidVals, etp0 : EtpVals]
    \cup {[temp_max |-> NULL, temp_min |-> NULL, precipitation |-> NULL,
            humidite |-> NULL, etp0 |-> NULL]}

\* the answers explored for date d: all the null patterns on JourRecent,
\* complete or empty days on the other dates
ReponsesPour(d) == IF d = JourRecent THEN DonneesBrutes ELSE DonneesCompletes

\* mean temperature as computed by _format_meteo_data and by the merge
TempMoy(temp_max, temp_min) ==
    IF temp_max # NULL /\ temp_min # NULL THEN (temp_max + temp_min) \div 2
    ELSE IF temp_max # NULL THEN temp_max
    ELSE IF temp_min # NULL THEN temp_min
    ELSE 0

\* MeteoAPI._format_meteo_data, for one date
FormatMeteoData(raw) ==
    [temp_max |-> raw.temp_max, temp_min |-> raw.temp_min,
     temp_moy |-> TempMoy(raw.temp_max, raw.temp_min),
     precipitation |-> raw.precipitation, humidite |-> raw.humidite,
     etp0 |-> raw.etp0]

\* the dates of JoursSuivis inside the window the API answers for
Fenetre(jour) ==
    {d \in JoursSuivis : jour - JoursPasses <= d /\ d <= jour + JoursFuturs}

\* no call of the API yet (since the load, or since the day changed)
AucunLot == [etat |-> "aucun", jours |-> <<>>]
\* a failed request (RequestException, timeout): get_meteo_data returns {}
LotEchec == [etat |-> "echec", jours |-> <<>>]

\* the answers of the API on day `jour`, date by date
ReponsesFenetre(jour) ==
    {f \in [Fenetre(jour) -> DonneesBrutes] :
        \A d \in Fenetre(jour) : f[d] \in ReponsesPour(d)}

\* MeteoAPI.get_meteo_data: every batch the call may return on day `jour`
GetMeteoData(jour) ==
    {LotEchec} \cup
    {[etat |-> "recu", jours |-> [d \in Fenetre(jour) |-> FormatMeteoData(f[d])]] :
        f \in ReponsesFenetre(jour)}

\* `not meteo_data_recent`: the batch is the empty dict
EstVide(lot) == lot.etat # "recu"

(***************************************************************************)
(* SystemeDecision: weather store                                          *)
(***************************************************************************)
\* the day is skipped by the merge loop
JourIgnore(data) ==
    /\ data.temp_max = NULL
    /\ data.temp_min = NULL
    /\ data.precipitation = NULL
    /\ data.etp0 = NULL

\* jour.get(champ, defaut) for a stored day that may be absent
JourGet(hist, d, champ, defaut) ==
    IF d \in DOMAIN hist THEN hist[d][champ] ELSE defaut

\* FusionJour with the blanket overwrite the merge was written to avoid: the
\* incoming value is stored even when it is null
FusionJourEcrase(hist, d, data) ==
    LET temp_moy == TempMoy(data.temp_max, data.temp_min) IN
    [temp_moy |-> temp_moy, temp_max |-> data.temp_max,
     temp_min |-> data.temp_min, precipitation |-> data.precipitation,
     humidite |-> data.humidite, etp0 |-> data.etp0,
     gdd_jour |-> Max2(0, temp_moy - T_base)]

\* FusionJour with the rainfall of a re-fetched day added to the stored one
FusionJourCumul(hist, d, data) ==
    LET temp_moy == TempMoy(data.temp_max, data.temp_min) IN
    [temp_moy |-> temp_moy,
     temp_max |-> IF data.temp_max # NULL THEN data.temp_max
                  ELSE JourGet(hist, d, "temp_max", NULL),
     temp_min |-> IF data.temp_min # NULL THEN data.temp_min
                  ELSE JourGet(hist, d, "temp_min", NULL),
     precipitation |-> IF data.precipitation # NULL
                       THEN data.precipitation
                            + JourGet(hist, d, "precipitation", PluieDefaut)
                       ELSE JourGet(hist, d, "precipitation", PluieDefaut),
     humidite |-> IF data.humidite # NULL THEN data.humidite
                  ELSE JourGet(hist, d, "humidite", HumidDefaut),
     etp0 |-> IF data.etp0 # NULL THEN data.etp0
              ELSE JourGet(hist, d, "etp0", EtpDefaut),
     gdd_jour |-> Max2(0, temp_moy - T_base)]

\* the record written for date d by the merge loop
FusionJour(hist, d, data) ==
    LET temp_moy == TempMoy(data.temp_max, data.temp_min) IN
    [temp_moy |-> temp_moy,
     temp_max |-> IF data.temp_max # NULL THEN data.temp_max
                  ELSE JourGet(hist, d, "temp_max", NULL),
     temp_min |-> IF data.temp_min # NULL THEN data.temp_min
                  ELSE JourGet(hist, d, "temp_min", NULL),
     precipitation |-> IF data.precipitation # NULL THEN data.precipitation
                       ELSE JourGet(hist, d, "precipitation", PluieDefaut),
     humidite |-> IF data.humidite # NULL THEN data.humidite
                  ELSE JourGet(hist, d, "humidite", HumidDefaut),
     etp0 |-> IF data.etp0 # NULL THEN data.etp0
              ELSE JourGet(hist, d, "etp0", EtpDefaut),
     gdd_jour |-> Max2(0, temp_moy - T_base)]

\* the merge loop of _mettre_a_jour_historique_meteo over a whole batch
Fusionner(hist, lot) ==
    LET ecrits == {d \in DOMAIN lot.jours : ~JourIgnore(lot.jours[d])} IN
    [d \in DOMAIN hist \cup ecrits |->
        IF d \in ecrits THEN FusionJour(hist, d, lot.jours[d]) ELSE hist[d]]

\* the retention test of _sauvegarder_meteo_historique
AConserver(d, jour) ==
    (jour - d) <= Retention \/ Annee(d) = Annee(jour)

\* data_a_sauver of _sauvegarder_meteo_historique
DataASauver(hist, jour) ==
    [d \in {x \in DOMAIN hist : AConserver(x, jour)} |-> hist[d]]

\* gdd_data of _sauvegarder_meteo_historique
GddData(data) == [d \in DOMAIN data |-> data[d].gdd_jour]

(***************************************************************************)
(* ModeleBilanHydrique                                                     *)
(*   Inside the water balance, heights of water (reserve, capacity,        *)
(*   effective rain, crop evapotranspiration) are in thousandths of a mm   *)
(*   and the coefficients Kc, Ks and f_runoff in thousandths; heat units   *)
(*   are whole degree-days.  Products and quotients are rounded down to    *)
(*   the unit; the percentages of the result are in tenths, rounded to the *)
(*   nearest.                                                              *)
(***************************************************************************)
\* config.parametres: f_runoff 0.1, i_const_mm 1.0 (tenths of a mm)
f_runoff == 100
i_const_mm == 10
\* config.parametres['kc_calendrier'], by month
kc_calendrier == <<100, 100, 200, 400, 700, 800, 800, 700, 600, 400, 200, 100>>
\* the stress threshold of the reserve, in percent
seuil_stress_pct == 50
\* the alert levels of the final reserve, in percent
SeuilStressFort == 30
SeuilSurveillance == 60

\* the largest daily reference evapotranspiration drawn, in steps of 6 mm
MaxEtp == 2
\* the daily weather drawn for the balance: <<rain, etp0>> in tenths of a mm,
\* dry days of growing evaporative demand and a storm
TypesJour == {<<0, 60 * i>> : i \in 1..MaxEtp} \cup {<<600, 0>>}
Orage == <<600, 0>>
\* the capacities drawn: no reserve, a shallow soil, the default 100 mm
CapacitesRfu == {0, 5000, 100000}
\* the heat units drawn for a parcel out of dormancy
GddCumuls == {0, 1800}
\* the manual stages drawn: dormancy and a growing stage
StadesManuels == {"repos", "floraison"}

\* the days on which the balance is computed
JoursBilan == {Jour(2024, 12, 21), Jour(2025, 4, 15)}
\* the dates the store may hold then
DatesBilan ==
    {Jour(2024, 10, 25), Jour(2024, 11, 10), JourAncien, Jour(2025, 3, 20),
     Jour(2025, 4, 14), Jour(2025, 4, 20)}

\* the start of the hydrological cycle: 1 November
DateCycleDebut(jour) ==
    IF Mois(jour) >= 11 THEN Jour(Annee(jour), 11, 1)
    ELSE Jour(Annee(jour) - 1, 11, 1)

\* sorted(...) of a set of dates
RECURSIVE Trier(_)
Trier(S) ==
    IF S = {} THEN <<>>
    ELSE LET m == CHOOSE x \in S : \A y \in S : x <= y
         IN  <<m>> \o Trier(S \ {m})

\* DatesUtiles without the end at the day: the forecast dates are simulated
DatesUtilesSansFin(hist, jour) ==
    Trier({d \in DOMAIN hist : d >= DateCycleDebut(jour)})

\* dates_utiles
DatesUtiles(hist, jour) ==
    Trier({d \in DOMAIN hist : d >= DateCycleDebut(jour) /\ d <= jour})

\* `x or 0.0`
OuZero(x) == IF x = NULL THEN 0 ELSE x

\* ModeleBilanHydrique.calculer_kc_gdd
calculer_kc_gdd(gdd_cumul) ==
    IF gdd_cumul < 200 THEN 100
    ELSE IF gdd_cumul < 600 THEN 100 + (600 * (gdd_cumul - 200)) \div 400
    ELSE IF gdd_cumul < 1200 THEN 700 + (100 * (gdd_cumul - 600)) \div 600
    ELSE IF gdd_cumul < 1500 THEN 800 - (400 * (gdd_cumul - 1200)) \div 300
    ELSE Max2(300, 400 - (100 * (gdd_cumul - 1500)) \div 300)

\* Kc of the date of rank `rang` (from 0) among `nb` simulated dates
KcDuJour(d, rang, nb, gdd_cumul) ==
    IF Mois(d) >= 3 /\ Mois(d) <= 10
    THEN calculer_kc_gdd((gdd_cumul * rang) \div nb)
    ELSE kc_calendrier[Mois(d)]

\* KsDuJour without the feedback of the reserve: no stress, whatever is left
KsSansStress(rfu, rfu_max) == 1000

\* the stress coefficient Ks from the reserve of the day before
KsDuJour(rfu, rfu_max) ==
    IF rfu_max > 0 /\ rfu * 100 > seuil_stress_pct * rfu_max THEN 1000
    ELSE IF rfu_max > 0
         THEN Max2(0, (rfu * (100000 \div seuil_stress_pct)) \div rfu_max)
         ELSE 0

\* P_eff, from the rain of the day in tenths of a mm
PluieEfficace(pluie) ==
    IF pluie > i_const_mm
    THEN ((pluie - i_const_mm) * (1000 - f_runoff)) \div 10
    ELSE 0

\* ETc = Kc * etp0 * ks, from etp0 in tenths of a mm
EvapoCulture(Kc, etp0, ks) == (Kc * etp0 * ks) \div 10000

\* NouvelleReserve without the floor at zero
NouvelleReserveSansPlancher(rfu_max, rfu, P_eff, ETc) ==
    Min2(rfu_max, rfu + P_eff - ETc)

\* the reserve at the end of the day: min with the capacity, then max with 0
NouvelleReserve(rfu_max, rfu, P_eff, ETc) ==
    Max2(0, Min2(rfu_max, rfu + P_eff - ETc))

\* round((rfu / rfu_max) * 100, 1) if rfu_max > 0 else 0, in tenths
PourcentRfu(rfu, rfu_max) ==
    IF rfu_max > 0 THEN (2000 * rfu + rfu_max) \div (2 * rfu_max) ELSE 0

\* the alert level of a final reserve
NiveauRfu(rfu, rfu_max) ==
    IF rfu_max = 0 \/ rfu * 100 <= SeuilStressFort * rfu_max
    THEN "STRESS FORT"
    ELSE IF rfu * 100 <= SeuilSurveillance * rfu_max THEN "SURVEILLANCE"
    ELSE "CONFORTABLE"

\* niveau += " (Dormance)"
AvecDormance(niveau) ==
    CASE niveau = "STRESS FORT" -> "STRESS FORT (Dormance)"
      [] niveau = "SURVEILLANCE" -> "SURVEILLANCE (Dormance)"
      [] niveau = "CONFORTABLE" -> "CONFORTABLE (Dormance)"

\* the loop of calculer_bilan_rfu after the first n dates of `dates`: the
\* carried reserve, the last stress coefficient and the per-day percentages
RECURSIVE SimulerBilan(_, _, _, _, _)
SimulerBilan(hist, dates, n, rfu_max, gdd_cumul) ==
    IF n = 0 THEN [rfu |-> rfu_max, ks |-> 1000, pct |-> <<>>]
    ELSE LET avant == SimulerBilan(hist, dates, n - 1, rfu_max, gdd_cumul)
             d == dates[n]
             Kc == KcDuJour(d, n - 1, Len(dates), gdd_cumul)
             ks == KsDuJour(avant.rfu, rfu_max)
             rfu == NouvelleReserve(rfu_max, avant.rfu,
                                    PluieEfficace(OuZero(hist[d].precipitation)),
                                    EvapoCulture(Kc, OuZero(hist[d].etp0), ks))
         IN  [rfu |-> rfu, ks |-> ks,
              pct |-> [x \in DOMAIN avant.pct \cup {d} |->
                          IF x = d THEN PourcentRfu(rfu, rfu_max)
                          ELSE avant.pct[x]]]

\* ModeleBilanHydrique.calculer_bilan_rfu: the dict returned on day `jour`
CalculerBilanRfu(hist, jour, stade, rfu_max, gdd_cumul) ==
    LET dates == DatesUtiles(hist, jour)
        fin == SimulerBilan(hist, dates, Len(dates), rfu_max, gdd_cumul)
        niveau == NiveauRfu(fin.rfu, rfu_max)
    IN  IF dates = <<>>
        THEN [rfu_pct |-> 1000, rfu_mm |-> rfu_max \div 100,
              rfu_max_mm |-> rfu_max, niveau |-> "Donnees insuffisantes",
              historique_pct |-> <<>>, ks_actuel |-> 100]
        ELSE [rfu_pct |-> PourcentRfu(fin.rfu, rfu_max),
              rfu_mm |-> (fin.rfu + 50) \div 100,
              rfu_max_mm |-> rfu_max,
              niveau |-> IF stade = "repos" THEN AvecDormance(niveau)
                         ELSE niveau,
              historique_pct |-> fin.pct,
              ks_actuel |-> (fin.ks + 5) \div 10]

\* no balance computed yet
AucunBilan ==
    [rfu_pct |-> NULL, rfu_mm |-> NULL, rfu_max_mm |-> NULL, niveau |-> "N/A",
     historique_pct |-> <<>>, ks_actuel |-> NULL]

\* the variables of the water balance before any call
BilanInactif ==
    /\ stade_manuel = "repos"
    /\ rfu_max_mm = 0
    /\ gdd_cumul_actuel = 0
    /\ dates_utiles = <<>>
    /\ i_date = 0
    /\ rfu_actuelle_mm = 0
    /\ ks_actuel = 0
    /\ rfu_historique_pct = <<>>
    /\ bilan_h = AucunBilan
    /\ alerte_stress = FALSE

(***************************************************************************)
(* SystemeDecision: the decision of analyser_parcelle                      *)
(*   The scores are Python floats carrying one decimal (both are results   *)
(*   of round(x, 1)); score k/10 is the integer k.  The double nearest to  *)
(*   k/10 is not k/10, and `risque_simple - protection` subtracts the two  *)
(*   doubles: ErreurDouble and DifferenceAtteint compute the outcome of    *)
(*   the comparisons of that difference with the thresholds.               *)
(***************************************************************************)
\* class constants of SystemeDecision (mm and scores, in tenths)
SEUIL_ALERTE_PLUIE == 100
SEUIL_PROTECTION_FAIBLE == 50
SEUIL_DECISION_HAUTE == 50
SEUIL_DECISION_MOYENNE == 20

\* the doubles next to k/10 are spaced by 2^-BitsFraction(k)
BitsFraction(k) ==
    IF k >= 1280 THEN 45 ELSE IF k >= 640 THEN 46 ELSE IF k >= 320 THEN 47
    ELSE IF k >= 160 THEN 48
    ELSE IF k >= 80 THEN 49 ELSE IF k >= 40 THEN 50 ELSE IF k >= 20 THEN 51
    ELSE IF k >= 10 THEN 52 ELSE IF k >= 5 THEN 53 ELSE IF k >= 3 THEN 54
    ELSE IF k = 2 THEN 55 ELSE 56

\* 2^p modulo 10, for p >= 1
Pow2Mod10(p) ==
    CASE p % 4 = 1 -> 2 [] p % 4 = 2 -> 4 [] p % 4 = 3 -> 8 [] p % 4 = 0 -> 6

\* (the double nearest to k/10) - k/10, in units of 2^-56 / 10
ErreurDouble(k) ==
    IF k = 0 THEN 0
    ELSE LET p == BitsFraction(k)
             r == (k * Pow2Mod10(p)) % 10
         IN  (IF r < 5 THEN 0 - r ELSE 10 - r) * 2^(56 - p)

\* `a - b >= seuil` on the doubles of a/10 and b/10: the difference is
\* rounded to the nearest double, so it reaches the threshold when it lies
\* at most half a spacing below it
DifferenceAtteint(a, b, seuil) ==
    \/ a - b > seuil
    \/ /\ a - b = seuil
       /\ ErreurDouble(a) - ErreurDouble(b)
             >= 0 - 10 * 2^(55 - BitsFraction(seuil - 1))

\* the largest 3-day forecast rainfall drawn, in steps of 6 mm
MaxPluiePrevue == 2
PluiesPrevues == {60 * i : i \in 0..MaxPluiePrevue}
\* scores the simple risk model and the protection model return
ScoresRisque == {56, 100}
ScoresProtection == {21, 36, 50}
NiveauxOidium == {"FAIBLE", "MOYEN", "FORT"}
NiveauxBilan == {"CONFORTABLE", "STRESS FORT"}

\* Decision with the verdict raised by the preventive alert
DecisionInfluencee(risque_simple, protection, niveau_oidium, pluie_prevue) ==
    LET haute == DifferenceAtteint(risque_simple, protection,
                                   SEUIL_DECISION_HAUTE)
        moyenne == DifferenceAtteint(risque_simple, protection,
                                     SEUIL_DECISION_MOYENNE)
        alerte == pluie_prevue > SEUIL_ALERTE_PLUIE
                  /\ protection < SEUIL_PROTECTION_FAIBLE
    IN  [score |-> risque_simple - protection,
         action |-> IF haute \/ alerte THEN "TRAITER MAINTENANT (Mildiou)"
                    ELSE IF moyenne
                    THEN "Surveiller - Traiter si pluie annoncee (Mildiou)"
                    ELSE "Pas de traitement Mildiou necessaire",
         urgence |-> IF haute \/ alerte THEN "haute"
                     ELSE IF moyenne THEN "moyenne" ELSE "faible",
         alerte_preventive |->
             IF alerte THEN "Traitement preventif Mildiou recommande" ELSE "",
         alerte_oidium |->
             IF niveau_oidium = "FORT" THEN "RISQUE OIDIUM FORT"
             ELSE IF niveau_oidium = "MOYEN" THEN "Risque Oidium MOYEN"
             ELSE ""]

\* analyse['decision']: the score, the verdict and the two alerts
Decision(risque_simple, protection, niveau_oidium, pluie_prevue) ==
    LET haute == DifferenceAtteint(risque_simple, protection,
                                   SEUIL_DECISION_HAUTE)
        moyenne == DifferenceAtteint(risque_simple, protection,
                                     SEUIL_DECISION_MOYENNE)
    IN  [score |-> risque_simple - protection,
         action |-> IF haute THEN "TRAITER MAINTENANT (Mildiou)"
                    ELSE IF moyenne
                    THEN "Surveiller - Traiter si pluie annoncee (Mildiou)"
                    ELSE "Pas de traitement Mildiou necessaire",
         urgence |-> IF haute THEN "haute"
                     ELSE IF moyenne THEN "moyenne" ELSE "faible",
         alerte_preventive |->
             IF pluie_prevue > SEUIL_ALERTE_PLUIE
                /\ protection < SEUIL_PROTECTION_FAIBLE
             THEN "Traitement preventif Mildiou recommande" ELSE "",
         alerte_oidium |->
             IF niveau_oidium = "FORT" THEN "RISQUE OIDIUM FORT"
             ELSE IF niveau_oidium = "MOYEN" THEN "Risque Oidium MOYEN"
             ELSE ""]

\* the dict returned by analyser_parcelle (the keys the decision involves)
Analyse(risque_simple, protection, niveau_oidium, pluie_prevue, niveau_bilan) ==
    [bilan_hydrique |-> [niveau |-> niveau_bilan],
     risque_infection |-> [score |-> risque_simple],
     risque_oidium |-> [niveau |-> niveau_oidium],
     protection_actuelle |-> [score |-> protection],
     decision |-> Decision(risque_simple, protection, niveau_oidium,
                           pluie_prevue),
     previsions_3j |-> [pluie_totale |-> pluie_prevue]]

\* no analysis returned yet
AucuneAnalyse == [erreur |-> "aucune analyse"]

\* the variables of the decision before any call
DecisionInactive ==
    /\ analyse = AucuneAnalyse
    /\ analyse_prec = AucuneAnalyse

\* a complete day of weather as the API returns it, with the rain and the
\* evapotranspiration of `type`
JourComplet(type) ==
    FormatMeteoData([temp_max |-> 180, temp_min |-> 80,
                     precipitation |-> type[1], humidite |-> 70,
                     etp0 |-> type[2]])

(***************************************************************************)
(* GestionTraitements: calculer_protection_actuelle                        *)
(*   A Python float that stands for the decimal k/10 is the pair <<k, e>>: *)
(*   its value is k/10 + e * 2^-56 / 10.  The rainfall since the treatment *)
(*   is the sum of such floats, added one by one in double precision.      *)
(*   The two decays are computed exactly, as fractions over the            *)
(*   persistence, and rounded to the tenth as round(x, 1) does.            *)
(***************************************************************************)
\* GestionTraitements.INITIAL_FONGICIDES (the keys the protection reads)
FONGICIDES ==
    [bouillie_bordelaise |->
         [persistance_jours |-> 10, lessivage_seuil_mm |-> 30, type |-> "contact"],
     cymoxanil |->
         [persistance_jours |-> 7, lessivage_seuil_mm |-> 20, type |-> "penetrant"],
     fosetyl_al |->
         [persistance_jours |-> 14, lessivage_seuil_mm |-> 40, type |-> "systemique"],
     mancozebe |->
         [persistance_jours |-> 7, lessivage_seuil_mm |-> 25, type |-> "contact"],
     soufre |->
         [persistance_jours |-> 8, lessivage_seuil_mm |-> 15, type |-> "contact"]]

\* GestionTraitements.COEF_POUSSE, in tenths
COEF_POUSSE ==
    [repos |-> 0, debourrement |-> 5, pousse_10cm |-> 20, pre_floraison |-> 18,
     floraison |-> 10, nouaison |-> 8, fermeture_grappe |-> 5, veraison |-> 2,
     maturation |-> 1]

\* COEF_POUSSE.get(stade, 1.0)
CoefPousse(stade) ==
    IF stade \in DOMAIN COEF_POUSSE THEN COEF_POUSSE[stade] ELSE 10

\* 2^p modulo 20, for p >= 2
Pow2Mod20(p) ==
    CASE p % 4 = 2 -> 4 [] p % 4 = 3 -> 8 [] p % 4 = 0 -> 16 [] p % 4 = 1 -> 12

\* the float of the decimal k/10
Double(k) == <<k, ErreurDouble(k)>>

\* the doubles next to k/10 + e * 2^-56 / 10 are spaced by 2^-BitsValeur(k, e)
BitsValeur(k, e) ==
    IF e < 0 /\ k \in {5, 10, 20, 40, 80, 160, 320, 640, 1280}
    THEN BitsFraction(k) + 1 ELSE BitsFraction(k)

\* x + y on two floats: the exact sum rounded to the nearest double, to the
\* even one when it lies half way
SommeDoubles(x, y) ==
    LET k == x[1] + y[1]
        e == x[2] + y[2]
        p == BitsValeur(k, e)
        pas == 10 * 2^(56 - p)
        reste2 == (2^(56 - p) * ((k * Pow2Mod20(p)) % 20) + e + 2 * pas)
                      % (2 * pas)
        reste == reste2 % pas
    IN  IF k = 0 THEN <<0, 0>>
        ELSE IF 2 * reste < pas THEN <<k, e - reste>>
        ELSE IF 2 * reste > pas THEN <<k, e + pas - reste>>
        ELSE IF reste2 >= pas THEN <<k, e + pas - reste>>
        ELSE <<k, e - reste>>

\* sum(...) of the floats of the decimals of `pluies`, from the left
RECURSIVE SommePluies(_)
SommePluies(pluies) ==
    IF pluies = <<>> THEN <<0, 0>>
    ELSE SommeDoubles(SommePluies(SubSeq(pluies, 1, Len(pluies) - 1)),
                      Double(pluies[Len(pluies)]))

\* x > seuil for a float x and a whole number of tenths
DoubleDepasse(x, seuil) == x[1] > seuil \/ (x[1] = seuil /\ x[2] > 0)

\* round(n / d, 1) of a value of n / d tenths: to the nearest tenth, to the
\* even one when it lies half way
ArrondiDixieme(n, d) ==
    LET q == n \div d
        r == n % d
    IN  IF 2 * r > d \/ (2 * r = d /\ q % 2 = 1) THEN q + 1 ELSE q

\* the positions of the treatments of every parcel
TraitementsToutesParcelles(trts, parcelle) == 1..Len(trts)

\* traitements_parcelle: the positions of the treatments of the parcel
TraitementsParcelle(trts, parcelle) ==
    {i \in 1..Len(trts) : trts[i].parcelle = parcelle}

\* max(traitements_parcelle, key=date): the first of the latest ones
DernierTraitement(trts, parcelle) ==
    LET idx == TraitementsParcelle(trts, parcelle)
        i == CHOOSE a \in idx :
                 \A b \in idx : /\ trts[b].date <= trts[a].date
                                /\ (trts[b].date = trts[a].date => a <= b)
    IN  trts[i]

\* protection_temps, in tenths times the persistence
ProtectionTemps(jours_ecoules, persistance) ==
    Max2(0, 100 * persistance - 100 * jours_ecoules)

\* protection_pousse, in tenths times the persistence
ProtectionPousse(jours_ecoules, persistance, stade) ==
    Max2(0, 100 - jours_ecoules * CoefPousse(stade)) * persistance

\* the rain of the query date alone
PluieDuJour(hist, date_trait, date_actuelle) ==
    LET dates == Trier({d \in DOMAIN hist : d = date_actuelle})
    IN  SommePluies([i \in 1..Len(dates) |-> hist[dates[i]].precipitation])

\* pluie_depuis_traitement: the stored rain from the treatment date to the
\* query date, both included, added in the order of the store
PluieDepuisTraitement(hist, date_trait, date_actuelle) ==
    LET dates == Trier({d \in DOMAIN hist :
                           d >= date_trait /\ d <= date_actuelle})
    IN  SommePluies([i \in 1..Len(dates) |-> hist[dates[i]].precipitation])

\* the record of a parcel without treatment
AucunTraitement == <<>>

\* calculer_protection_actuelle with the growth dilution applied to every
\* product type
ProtectionToutType(hist, trts, parcelle, date_actuelle, stade) ==
    IF TraitementsParcelle(trts, parcelle) = {}
    THEN [score |-> 0, dernier_traitement |-> AucunTraitement,
          facteur_limitant |-> "Aucun traitement"]
    ELSE
    LET dernier == DernierTraitement(trts, parcelle)
        jours_ecoules == date_actuelle - dernier.date
        carac == dernier.caracteristiques
        temps == ProtectionTemps(jours_ecoules, carac.persistance_jours)
        pousse == ProtectionPousse(jours_ecoules, carac.persistance_jours, stade)
        pluie == PluieDepuisTraitement(hist, dernier.date, date_actuelle)
    IN  IF jours_ecoules < 0
        THEN [score |-> 100, dernier_traitement |-> dernier,
              facteur_limitant |-> "Traitement futur"]
        ELSE IF DoubleDepasse(pluie, 10 * carac.lessivage_seuil_mm)
        THEN [score |-> 0, dernier_traitement |-> dernier,
              facteur_limitant |-> "Lessivage"]
        ELSE IF pousse < temps
        THEN [score |-> ArrondiDixieme(pousse, carac.persistance_jours),
              dernier_traitement |-> dernier,
              facteur_limitant |-> "Pousse (dilution)"]
        ELSE [score |-> ArrondiDixieme(temps, carac.persistance_jours),
              dernier_traitement |-> dernier,
              facteur_limitant |-> "Persistance"]

\* jours_ecoules / persistance with a persistence of zero: the call raises
\* ZeroDivisionError and returns nothing
EchecProtection(dernier) ==
    [score |-> NULL, dernier_traitement |-> dernier,
     facteur_limitant |-> "ZeroDivisionError"]

\* GestionTraitements.calculer_protection_actuelle: the score in tenths, the
\* latest treatment and the limiting factor; a persistence of zero makes the
\* division of the time decay fail unless the treatment is yet to come
CalculerProtectionActuelle(hist, trts, parcelle, date_actuelle, stade) ==
    IF TraitementsParcelle(trts, parcelle) = {}
    THEN [score |-> 0, dernier_traitement |-> AucunTraitement,
          facteur_limitant |-> "Aucun traitement"]
    ELSE
    LET dernier == DernierTraitement(trts, parcelle)
        jours_ecoules == date_actuelle - dernier.date
        carac == dernier.caracteristiques
        temps == ProtectionTemps(jours_ecoules, carac.persistance_jours)
        pousse == ProtectionPousse(jours_ecoules, carac.persistance_jours, stade)
        pluie == PluieDepuisTraitement(hist, dernier.date, date_actuelle)
    IN  IF jours_ecoules < 0
        THEN [score |-> 100, dernier_traitement |-> dernier,
              facteur_limitant |-> "Traitement futur"]
        ELSE IF carac.persistance_jours = 0
        THEN EchecProtection(dernier)
        ELSE IF DoubleDepasse(pluie, 10 * carac.lessivage_seuil_mm)
        THEN [score |-> 0, dernier_traitement |-> dernier,
              facteur_limitant |-> "Lessivage"]
        ELSE IF carac.type \in {"contact", "penetrant"} /\ pousse < temps
        THEN [score |-> ArrondiDixieme(pousse, carac.persistance_jours),
              dernier_traitement |-> dernier,
              facteur_limitant |-> "Pousse (dilution)"]
        ELSE [score |-> ArrondiDixieme(temps, carac.persistance_jours),
              dernier_traitement |-> dernier,
              facteur_limitant |-> "Persistance"]

\* the parcels of the default configuration
Parcelles == {"Parcelle 1", "Parcelle 2"}

\* the day of the reference treatment
JourTraitement == Jour(2025, 6, 1)

\* the treatment appended by ajouter_traitement (the keys the protection reads)
Traitement(parcelle, date, produit) ==
    [parcelle |-> parcelle, date |-> date, produit |-> produit,
     caracteristiques |-> FONGICIDES[produit]]

\* number of treatments logged in a run
MaxTraitements == 2

\* the treatments a run may log: a contact, a penetrant or a systemic product
\* on the first parcel on the reference day, a systemic product six days
\* before it, and a contact product on the second parcel
TraitementsPossibles ==
    {Traitement("Parcelle 1", JourTraitement, p) :
        p \in {"soufre", "cymoxanil", "fosetyl_al"}}
    \cup {Traitement("Parcelle 1", JourTraitement - 6, "fosetyl_al"),
          Traitement("Parcelle 2", JourTraitement, "soufre")}

\* number of query dates after the reference day, three days apart
MaxRequete == 4

\* the query dates: the eve of the reference day, that day and the later ones
DatesRequete ==
    {JourTraitement - 1} \cup {JourTraitement + 3 * i : i \in 0..MaxRequete}

\* the stages of the parcel: no growth, fast growth, slow growth
StadesProtection == {"repos", "pre_floraison", "veraison"}

\* the stores of the protection: a storm on the eve of the reference day,
\* then rain (in tenths of mm) on that day, three and six days later, and a
\* dry day after them
StoresProtection ==
    {Fusionner(<<>>,
        [etat |-> "recu",
         jours |-> (JourTraitement - 1 :> JourComplet(<<500, 0>>))
                   @@ (JourTraitement :> JourComplet(<<a, 0>>))
                   @@ (JourTraitement + 3 :> JourComplet(<<b, 0>>))
                   @@ (JourTraitement + 6 :> JourComplet(<<c, 0>>))
                   @@ (JourTraitement + 9 :> JourComplet(<<0, 0>>))]) :
        a \in {0, 3}, b \in {0, 83, 100}, c \in {0, 64, 300}}

\* no protection computed yet
AucuneProtection ==
    [parcelle |-> "", date_actuelle |-> NULL, score |-> NULL,
     dernier_traitement |-> AucunTraitement, facteur_limitant |-> ""]

\* the variables of the protection before any call
ProtectionInactive ==
    /\ traitements = <<>>
    /\ protection_actuelle = AucuneProtection

(***************************************************************************)
(* ModeleIPI: calculer_ipi                                                 *)
(*   Temperatures are in tenths of a degree and durations in tenths of an  *)
(*   hour; the keys of the table are whole degrees and whole hours.  An    *)
(*   interpolated value is the fraction <<n, d>>, computed exactly.  The   *)
(*   inputs are multiples of half a degree and half an hour, on which the  *)
(*   double-precision computation rounds to the same integer.              *)
(***************************************************************************)
\* ModeleIPI.IPI_TABLE
IPI_TABLE ==
    (10 :> (6 :> 10 @@ 9 :> 20 @@ 12 :> 30 @@ 15 :> 40 @@ 18 :> 50))
    @@ (13 :> (5 :> 10 @@ 7 :> 20 @@ 10 :> 30 @@ 12 :> 40 @@ 15 :> 60
               @@ 18 :> 80))
    @@ (16 :> (4 :> 10 @@ 6 :> 20 @@ 8 :> 30 @@ 10 :> 50 @@ 12 :> 70
               @@ 15 :> 90))
    @@ (19 :> (3 :> 10 @@ 5 :> 20 @@ 7 :> 40 @@ 9 :> 60 @@ 11 :> 80
               @@ 13 :> 100))
    @@ (21 :> (3 :> 10 @@ 4 :> 20 @@ 6 :> 50 @@ 8 :> 80 @@ 10 :> 100))
    @@ (24 :> (3 :> 10 @@ 4 :> 30 @@ 6 :> 70 @@ 8 :> 100))
    @@ (27 :> (3 :> 20 @@ 5 :> 60 @@ 7 :> 100))

\* the upper cell, whatever the abscissa
InterpolateSuperieur(x, x0, y0, x1, y1) == y1

\* ModeleIPI._interpolate: x in tenths, x0 and x1 whole keys, y0 and y1
\* fractions
Interpolate(x, x0, y0, x1, y1) ==
    IF x1 = x0 THEN y0
    ELSE <<y0[1] * y1[2] * 10 * (x1 - x0)
               + (x - 10 * x0) * (y1[1] * y0[2] - y0[1] * y1[2]),
           y0[2] * y1[2] * 10 * (x1 - x0)>>

\* ModeleIPI._find_bounding_keys: the keys around a value in tenths, the
\* edge key twice at and beyond the edges
FindBoundingKeys(keys, value) ==
    LET premier == CHOOSE k \in keys : \A j \in keys : k <= j
        dernier == CHOOSE k \in keys : \A j \in keys : k >= j
    IN  IF value <= 10 * premier THEN <<premier, premier>>
        ELSE IF value >= 10 * dernier THEN <<dernier, dernier>>
        ELSE <<CHOOSE k \in keys :
                   /\ 10 * k <= value
                   /\ \A j \in keys : 10 * j <= value => j <= k,
               CHOOSE k \in keys :
                   /\ value < 10 * k
                   /\ \A j \in keys : value < 10 * j => k <= j>>

\* the interpolation over the durations of the row of temperature key t
IpiLigne(t, duree) ==
    LET durees == IPI_TABLE[t]
        d == FindBoundingKeys(DOMAIN durees, duree)
    IN  Interpolate(duree, d[1], <<durees[d[1]], 1>>, d[2],
                    <<durees[d[2]], 1>>)

\* round(max(0, v)) of the fraction v: to the nearest integer, to the even
\* one when it lies half way
ArrondiEntier(v) ==
    LET n == Max2(0, v[1])
        q == n \div v[2]
        r == n % v[2]
    IN  IF 2 * r > v[2] \/ (2 * r = v[2] /\ q % 2 = 1) THEN q + 1 ELSE q

\* calculer_ipi without the temperature band
CalculerIpiSansBande(evenement, duree) ==
    LET temp == evenement.temp_moy
        t == FindBoundingKeys(DOMAIN IPI_TABLE, temp)
        ipi_t0 == IpiLigne(t[1], duree)
        ipi_t1 == IpiLigne(t[2], duree)
    IN  IF t[1] = t[2] THEN ArrondiEntier(ipi_t0)
        ELSE ArrondiEntier(Interpolate(temp, t[1], ipi_t0, t[2], ipi_t1))

\* ModeleIPI.calculer_ipi
CalculerIpi(evenement, duree) ==
    LET temp == evenement.temp_moy
        t == FindBoundingKeys(DOMAIN IPI_TABLE, temp)
        ipi_t0 == IpiLigne(t[1], duree)
        ipi_t1 == IpiLigne(t[2], duree)
    IN  IF temp = NULL \/ temp < 100 \/ temp > 270 THEN 0
        ELSE IF t[1] = t[2] THEN ArrondiEntier(ipi_t0)
        ELSE ArrondiEntier(Interpolate(temp, t[1], ipi_t0, t[2], ipi_t1))

\* the mean temperatures handed to calculer_ipi: none, below the band, every
\* half degree of the band, above the band
TempsIpi ==
    {NULL, 50, 95} \cup {5 * i : i \in 20..54} \cup {275, 300}

\* longest wetness duration below the cap, in hours
MaxDureeIpi == 18

\* the cap of estimer_duree_humectation, in hours
DureePlafond == 24

\* the wetness durations handed to calculer_ipi: every half hour, and the cap
DureesIpi == {5 * i : i \in 0..(2 * MaxDureeIpi)} \cup {10 * DureePlafond}

\* the variables of the index before any call
IpiInactif ==
    /\ meteo_evenement = [temp_moy |-> NULL]
    /\ duree_humectation_estimee = 0
    /\ ipi_value = NULL

(***************************************************************************)
(* ConfigVignoble: the parcels                                             *)
(***************************************************************************)
\* ConfigVignoble.COEF_STADES: the known stages
COEF_STADES ==
    {"repos", "debourrement", "pousse_10cm", "pre_floraison", "floraison",
     "nouaison", "fermeture_grappe", "veraison", "maturation"}

\* a parcel of the configuration (the keys the stage update involves)
Parcelle(stade, date_debourrement) ==
    [stade_actuel |-> stade, date_debourrement |-> date_debourrement]

\* create_default_config: both parcels dormant, without biofix date
ParcellesDefaut == [n \in Parcelles |-> Parcelle("repos", NULL)]

\* no call of update_parcelle_stade_et_date yet; a call is logged with its
\* arguments, the biofix date the named parcel had before it, and what it
\* returned
AucunAppel ==
    [nom_parcelle |-> "", nouveau_stade |-> "", date_debourrement |-> NULL,
     date_avant |-> NULL, retour |-> FALSE]

\* the biofix date cleared by every stage but bud break
BiofixApresToutStade(parcelle, nouveau_stade, date_debourrement) ==
    IF nouveau_stade = "debourrement" /\ date_debourrement # NULL
    THEN date_debourrement
    ELSE NULL

\* the biofix date kept when the parcel returns to dormancy
BiofixApresSansEffacement(parcelle, nouveau_stade, date_debourrement) ==
    IF nouveau_stade = "debourrement" /\ date_debourrement # NULL
    THEN date_debourrement
    ELSE parcelle.date_debourrement

\* the biofix date of the named parcel after update_parcelle_stade_et_date
BiofixApres(parcelle, nouveau_stade, date_debourrement) ==
    IF nouveau_stade = "debourrement" /\ date_debourrement # NULL
    THEN date_debourrement
    ELSE IF nouveau_stade = "repos" THEN NULL
    ELSE parcelle.date_debourrement

\* a call is accepted whenever the parcel exists, whatever the stage
AppelAccepteSansStade(parcs, nom_parcelle, nouveau_stade) ==
    nom_parcelle \in DOMAIN parcs

\* update_parcelle_stade_et_date goes through: the stage is known and a
\* parcel bears the name
AppelAccepte(parcs, nom_parcelle, nouveau_stade) ==
    /\ nouveau_stade \in COEF_STADES
    /\ nom_parcelle \in DOMAIN parcs

\* the names handed to update_parcelle_stade_et_date: the parcels and a name
\* the configuration does not hold
NomsAppel == Parcelles \cup {"Parcelle 3"}

\* the stages handed to it: three known stages and an unknown one
StadesAppel == {"repos", "debourrement", "floraison", "inconnu"}

\* the bud break dates handed to it
DatesAppel == {NULL, Jour(2025, 3, 20), Jour(2025, 4, 2)}

\* the variables of the configuration as created by default
ConfigInactive ==
    /\ parcelles = ParcellesDefaut
    /\ config_persistee = ParcellesDefaut
    /\ dernier_appel = AucunAppel

(***************************************************************************)
(* SystemeDecision: _calculer_gdd and _predire_stade_futur                 *)
(*   Heat sums are in tenths of a degree-day; the thresholds of the table  *)
(*   and the returned sum are whole degree-days.  The temperatures of the  *)
(*   stores are multiples of half a degree, which doubles add exactly.     *)
(***************************************************************************)
\* SystemeDecision.GDD_STADE_MAP
GDD_STADE_MAP ==
    (180 :> "debourrement") @@ (300 :> "pousse_10cm")
    @@ (500 :> "pre_floraison") @@ (600 :> "floraison")
    @@ (750 :> "nouaison") @@ (900 :> "fermeture_grappe")
    @@ (1200 :> "veraison") @@ (1500 :> "maturation") @@ (1800 :> "repos")

\* the start of the accumulation on the biofix date whatever its year
DateDebutGddSansAnnee(date_biofix, date_actuelle) ==
    IF date_biofix # NULL /\ date_biofix <= date_actuelle
    THEN date_biofix
    ELSE Jour(Annee(date_actuelle), 3, 1)

\* date_debut_gdd: the biofix date when it is set, in the year of the query
\* date and not after it; the 1st of March of that year otherwise
DateDebutGdd(date_biofix, date_actuelle) ==
    IF /\ date_biofix # NULL
       /\ Annee(date_biofix) = Annee(date_actuelle)
       /\ date_biofix <= date_actuelle
    THEN date_biofix
    ELSE Jour(Annee(date_actuelle), 3, 1)

\* the loop of _calculer_gdd: the stored heat units of the dates from
\* `debut` to d
RECURSIVE SommeGdd(_, _, _)
SommeGdd(hist, debut, d) ==
    IF d < debut THEN 0
    ELSE SommeGdd(hist, debut, d - 1)
         + (IF d \in DOMAIN hist THEN hist[d].gdd_jour ELSE 0)

\* the stage of the largest threshold strictly below the sum
StadeEstimeStrict(somme) ==
    LET atteints == {g \in DOMAIN GDD_STADE_MAP : somme > 10 * g}
    IN  IF atteints = {} THEN "repos"
        ELSE GDD_STADE_MAP[CHOOSE g \in atteints : \A h \in atteints : h <= g]

\* stade_estime_gdd: the stage of the largest threshold the sum reaches
StadeEstime(somme) ==
    LET atteints == {g \in DOMAIN GDD_STADE_MAP : somme >= 10 * g}
    IN  IF atteints = {} THEN "repos"
        ELSE GDD_STADE_MAP[CHOOSE g \in atteints : \A h \in atteints : h <= g]

\* prochain_stade_gdd: the smallest threshold above the sum, None without one
ProchainSeuil(somme) ==
    LET restants == {g \in DOMAIN GDD_STADE_MAP : somme < 10 * g}
    IN  IF restants = {} THEN NULL
        ELSE CHOOSE g \in restants : \A h \in restants : g <= h

\* gdd_sum of _calculer_gdd for a parcel that is not dormant
GddSum(parcelle, hist, date_actuelle) ==
    SommeGdd(hist, DateDebutGdd(parcelle.date_debourrement, date_actuelle),
             date_actuelle)

\* SystemeDecision._calculer_gdd: the returned sum, stage and next threshold
CalculerGdd(parcelle, hist, date_actuelle, stade) ==
    IF stade = "repos"
    THEN [gdd |-> 0, stade_estime |-> "repos", prochain_stade_gdd |-> 180,
          prochain_stade_nom |-> "debourrement"]
    ELSE LET somme == GddSum(parcelle, hist, date_actuelle)
             prochain == ProchainSeuil(somme)
         IN  [gdd |-> somme \div 10, stade_estime |-> StadeEstime(somme),
              prochain_stade_gdd |-> prochain,
              prochain_stade_nom |-> IF prochain = NULL THEN ""
                                     ELSE GDD_STADE_MAP[prochain]]

\* the forecast horizon of _predire_stade_futur, in store dates
HorizonPrevision == 7

\* every store date after the query date
DatesFuturesSansLimite(hist, date_actuelle) ==
    Trier({d \in DOMAIN hist : d > date_actuelle})

\* dates_futures: the first store dates after the query date
DatesFutures(hist, date_actuelle) ==
    Trier({d \in DOMAIN hist :
              /\ d > date_actuelle
              /\ Cardinality({e \in DOMAIN hist : e > date_actuelle /\ e < d})
                     < HorizonPrevision})

\* the loop of _predire_stade_futur from position i with `cumul` heat units
RECURSIVE JoursPourAtteindre(_, _, _, _, _)
JoursPourAtteindre(hist, dates, i, cumul, gdd_necessaire) ==
    IF i > Len(dates) THEN -1
    ELSE LET gdd_futur_cumul ==
                 cumul + Max2(0, OuZero(hist[dates[i]].temp_moy) - T_base)
         IN  IF gdd_futur_cumul >= 10 * gdd_necessaire THEN i
             ELSE JoursPourAtteindre(hist, dates, i + 1, gdd_futur_cumul,
                                     gdd_necessaire)

\* SystemeDecision._predire_stade_futur: the returned day count
PredireStadeFutur(hist, date_actuelle, gdd_actuel, prochain_stade_gdd, stade) ==
    IF stade = "repos" THEN -1
    ELSE IF prochain_stade_gdd = NULL THEN -1
    ELSE IF prochain_stade_gdd - gdd_actuel <= 0 THEN 0
    ELSE JoursPourAtteindre(hist, DatesFutures(hist, date_actuelle), 1, 0,
                            prochain_stade_gdd - gdd_actuel)

\* the 1st of March of the season the model follows
PremierMars == Jour(2025, 3, 1)

\* longest accumulation from the 1st of March, in days
MaxJoursGdd == 60

\* the accumulation lengths, in days from the 1st of March
DureesGdd == {1, 6, 10, 11, 12, 20, 25, 30, 40, 50, MaxJoursGdd}

\* the query dates: one before the season, and the ends of the accumulations
DatesGdd == {Jour(2025, 1, 5)} \cup {PremierMars + n - 1 : n \in DureesGdd}

\* the dates the stores of the season may hold
JoursSaison == Jour(2025, 2, 10)..(PremierMars + MaxJoursGdd + 9)

\* a day of weather with the same minimal and maximal temperature
JourTempere(temp) ==
    FormatMeteoData([temp_max |-> temp, temp_min |-> temp,
                     precipitation |-> 0, humidite |-> 70, etp0 |-> 0])

\* the stores of the season: a temperature before the 1st of March and one
\* from it, every date or six dates out of seven
StoresGdd ==
    {Fusionner(<<>>,
        [etat |-> "recu",
         jours |-> [d \in {x \in JoursSaison : ~trous \/ x % 7 # 3} |->
                        JourTempere(IF d < PremierMars THEN hiver
                                    ELSE printemps)]]) :
        hiver \in {100, 150}, printemps \in {125, 225, 250, 400},
        trous \in BOOLEAN}

\* the biofix dates: none, the year before, before the 1st of March, in the
\* season, after every query date
DatesBiofix ==
    {NULL, Jour(2024, 12, 20), Jour(2025, 2, 15), Jour(2025, 3, 20),
     Jour(2025, 8, 15)}

\* the analysed parcel: dormant without biofix date, or in a growth stage
ParcellesGdd ==
    {Parcelle("repos", NULL)}
    \cup {Parcelle(st, b) : st \in {"debourrement", "floraison"},
                            b \in DatesBiofix}

\* no result of _calculer_gdd yet
AucunGdd ==
    [gdd |-> NULL, stade_estime |-> "", prochain_stade_gdd |-> NULL,
     prochain_stade_nom |-> ""]

\* the variables of the heat sum before any call
GddInactif ==
    /\ gdd_sum = 0
    /\ resultat_gdd = AucunGdd
    /\ prevision_stade = NULL

(***************************************************************************)
(* ModeleSimple and ModeleOidium: calculer_risque_infection                *)
(*   A window is the list of the days read from the store, the oldest      *)
(*   first; a date absent from the store gives the empty dict, <<>>.  The  *)
(*   scores are fractions <<n, d>> of n / d tenths, computed exactly.  The *)
(*   weather of the windows is made of halves of a unit, which the floats  *)
(*   of the code hold and add without error; the one product of the code   *)
(*   that falls under its exact value at a threshold is told by            *)
(*   OidiumSousExact.                                                      *)
(***************************************************************************)
\* ConfigVignoble.SENSIBILITES_CEPAGES.get(c, 5)
SENSIBILITES_CEPAGES(c) ==
    CASE c \in {"Pinot Noir"} -> 8
      [] c \in {"Chardonnay", "Merlot", "Sauvignon"} -> 7
      [] c \in {"Cabernet Sauvignon", "Syrah", "Ugni Blanc", "Viognier",
                "Caladoc"} -> 6
      [] c \in {"Grenache", "Mourvedre", "Cinsault"} -> 5
      [] c \in {"Carignan"} -> 4
      [] OTHER -> 5

\* sum(sensibilites), for the list of cultivars of a parcel
RECURSIVE SommeSensibilites(_)
SommeSensibilites(cepages) ==
    IF cepages = <<>> THEN 0
    ELSE SENSIBILITES_CEPAGES(Head(cepages)) + SommeSensibilites(Tail(cepages))

\* StadeCoef with the dormant stage given the coefficient of an unknown one
StadeCoefSansDormance(stade) ==
    CASE stade = "debourrement" -> 8
      [] stade \in {"pousse_10cm", "fermeture_grappe"} -> 15
      [] stade \in {"pre_floraison", "nouaison"} -> 18
      [] stade = "floraison" -> 20
      [] stade = "veraison" -> 7
      [] stade = "maturation" -> 3
      [] OTHER -> 10

\* ConfigVignoble.COEF_STADES.get(stade, 1.0), in tenths
StadeCoef(stade) ==
    CASE stade = "repos" -> 0
      [] stade = "debourrement" -> 8
      [] stade \in {"pousse_10cm", "fermeture_grappe"} -> 15
      [] stade \in {"pre_floraison", "nouaison"} -> 18
      [] stade = "floraison" -> 20
      [] stade = "veraison" -> 7
      [] stade = "maturation" -> 3
      [] OTHER -> 10

\* the days of a window that the store holds (`if m`)
JoursPresents(fenetre) == SelectSeq(fenetre, LAMBDA m : DOMAIN m # {})

\* the sum of the values of one key over a list of days
RECURSIVE SommeCle(_, _)
SommeCle(jours, cle) ==
    IF jours = <<>> THEN 0
    ELSE Head(jours)[cle] + SommeCle(Tail(jours), cle)

\* the three tiers of a score of n / d tenths
NiveauRisque(n, d) ==
    IF n >= 70 * d THEN "FORT" ELSE IF n >= 40 * d THEN "MOYEN" ELSE "FAIBLE"

\* the result of a risk model
Risque(score, niveau) == [score |-> score, niveau |-> niveau]

\* ModeleSimple.calculer_risque_infection: score_base
ScoreBase(meteo_48h) ==
    LET presents == JoursPresents(meteo_48h)
        pluie_totale == SommeCle(presents, "precipitation")
        jours_humides == SelectSeq(presents, LAMBDA m : m.precipitation > 10)
        retenus == IF jours_humides # <<>> THEN jours_humides ELSE presents
        temp == SommeCle(retenus, "temp_moy")
        nt == Len(retenus)
        humid == SommeCle(presents, "humidite")
    IN  (IF pluie_totale >= 100 THEN 5
         ELSE IF pluie_totale >= 50 THEN 3
         ELSE IF pluie_totale >= 20 THEN 1 ELSE 0)
        + (IF 200 * nt <= temp /\ temp <= 250 * nt THEN 4
           ELSE IF 150 * nt <= temp /\ temp <= 280 * nt THEN 2
           ELSE IF 100 * nt <= temp /\ temp <= 300 * nt THEN 1 ELSE 0)
        + (IF humid > 85 * Len(presents) THEN 1 ELSE 0)

\* ModeleSimple.calculer_risque_infection: the tier is read on the score
\* before it is rounded
ModeleSimpleRisque(meteo_48h, stade_coef, somme_sens, nb_cepages) ==
    IF JoursPresents(meteo_48h) = <<>> THEN Risque(0, "FAIBLE")
    ELSE LET brut == ScoreBase(meteo_48h) * stade_coef * somme_sens
             d == 5 * nb_cepages
             n == IF brut >= 100 * d THEN 100 * d ELSE brut
         IN  Risque(ArrondiDixieme(n, d), NiveauRisque(n, d))

\* ModeleOidium.calculer_risque_infection: daily_score of a day
ScoreJourOidium(m) ==
    LET base == IF m.temp_max # NULL /\ m.temp_max >= 330 THEN -2
                ELSE IF /\ m.temp_max # NULL /\ m.humidite # NULL
                        /\ 200 <= m.temp_max /\ m.temp_max <= 280
                        /\ m.humidite >= 60 THEN 3
                ELSE IF /\ m.temp_max # NULL /\ m.humidite # NULL
                        /\ 150 <= m.temp_max /\ m.temp_max <= 300
                        /\ m.humidite >= 50 THEN 1
                ELSE 0
        pluie == IF m.precipitation # NULL /\ m.precipitation >= 50
                 THEN base - 1 ELSE base
    IN  IF pluie > -2 THEN pluie ELSE -2

\* ModeleOidium.calculer_risque_infection: score_total
RECURSIVE ScoreTotalOidium(_)
ScoreTotalOidium(jours) ==
    IF jours = <<>> THEN 0
    ELSE ScoreJourOidium(Head(jours)) + ScoreTotalOidium(Tail(jours))

\* (score_total / max_score_possible) * 10 * (stade_coef / 1.5) in double
\* precision: with score_total = jours_comptes and the coefficient 1.8 the
\* product is 3.9999999999999996, under its exact value 4
OidiumSousExact(score_total, jours_comptes, stade_coef) ==
    score_total = jours_comptes /\ stade_coef = 18

\* ModeleOidium.calculer_risque_infection: the tier is read on the score
\* before it is rounded
ModeleOidiumRisque(fenetre, stade_coef) ==
    LET presents == JoursPresents(fenetre)
        jours_comptes == Len(presents)
        score_total == ScoreTotalOidium(presents)
        d == 9 * jours_comptes
        brut == IF score_total > 0 THEN 20 * score_total * stade_coef ELSE 0
        n == IF brut >= 100 * d THEN 100 * d ELSE brut
    IN  IF jours_comptes = 0 THEN Risque(0, "FAIBLE")
        ELSE Risque(ArrondiDixieme(n, d),
                    IF OidiumSousExact(score_total, jours_comptes, stade_coef)
                    THEN "FAIBLE" ELSE NiveauRisque(n, d))

\* analyser_parcelle: the n days up to `jour` as read from the store, the
\* empty dict for a date the store does not hold
MeteoFenetre(hist, jour, n) ==
    [i \in 1..n |-> IF jour - n + i \in DOMAIN hist THEN hist[jour - n + i]
                    ELSE <<>>]

\* parcelle['cepages'] in the default configuration
CepagesParcelle(parcelle) ==
    IF parcelle = "Parcelle 1" THEN <<"Grenache", "Syrah">>
    ELSE <<"Mourvedre">>

\* analyser_parcelle: the last three days of the window of seven
Meteo48h(fenetre) == SubSeq(fenetre, Len(fenetre) - 2, Len(fenetre))

\* the days of the windows: mild and damp, warm, scorching, rainy
JoursRisque ==
    {FormatMeteoData([temp_max |-> 180, temp_min |-> 60, precipitation |-> 0,
                      humidite |-> 90, etp0 |-> 20]),
     FormatMeteoData([temp_max |-> 240, temp_min |-> 200, precipitation |-> 0,
                      humidite |-> 70, etp0 |-> 40]),
     FormatMeteoData([temp_max |-> 340, temp_min |-> 200, precipitation |-> 0,
                      humidite |-> 40, etp0 |-> 60]),
     FormatMeteoData([temp_max |-> 210, temp_min |-> 130,
                      precipitation |-> 60, humidite |-> 95, etp0 |-> 10])}

\* the windows of seven days: the four oldest days go by pairs of like days
FenetresRisque ==
    {<<a, a, b, b, c, e, f>> :
        a \in {<<>>} \cup {j \in JoursRisque : j.precipitation = 0
                                               /\ j.temp_max >= 240},
        b \in {<<>>} \cup {j \in JoursRisque : j.precipitation = 0
                                               /\ j.temp_max >= 240},
        c \in {<<>>} \cup JoursRisque, e \in {<<>>} \cup JoursRisque,
        f \in {<<>>} \cup JoursRisque}

\* the parcels analysed: the two of the default configuration, in the
\* stages, and one of a sensitive cultivar
StadesRisque == {"repos", "debourrement", "pre_floraison", "floraison"}
CepagesRisque == {<<"Grenache", "Syrah">>, <<"Mourvedre">>, <<"Pinot Noir">>}
ParcellesRisque ==
    {[stade_actuel |-> st, cepages |-> c] :
        st \in StadesRisque, c \in CepagesRisque}

\* no risk computed yet
AucunRisque == Risque(NULL, "")

\* the variables of the risk models before any call
RisqueInactif ==
    /\ meteo_7j = <<>>
    /\ parcelle_analysee = [stade_actuel |-> "repos", cepages |-> <<>>]
    /\ risque_infection = AucunRisque
    /\ risque_oidium = AucunRisque

(***************************************************************************)
(* GestionHistoriqueAlertes: ajouter_analyse                               *)
(*   historique['campagnes'] is the list of the campaigns in the order of  *)
(*   their creation, each with the list of its analyses.                   *)
(***************************************************************************)
\* get_campagne: the position of the first campaign of the year, 0 for None
RECURSIVE GetCampagne(_, _)
GetCampagne(campagnes, annee) ==
    IF campagnes = <<>> THEN 0
    ELSE IF Head(campagnes).annee = annee THEN 1
    ELSE LET suite == GetCampagne(Tail(campagnes), annee)
         IN  IF suite = 0 THEN 0 ELSE suite + 1

\* creer_campagne: an empty campaign is appended
CreerCampagne(campagnes, annee) ==
    Append(campagnes, [annee |-> annee, analyses |-> <<>>])

\* analyse_simplifiee: the snapshot kept of a complete analysis
AnalyseSimplifiee(analyse_complete) ==
    [date |-> analyse_complete.date_analyse,
     parcelle |-> analyse_complete.parcelle,
     risque_mildiou |-> [score |-> analyse_complete.risque_infection.score],
     decision |-> [urgence |-> analyse_complete.decision.urgence]]

\* the positions of the analyses of the date, whatever the parcel
AnalysesExistantesParDate(analyses, analyse_complete) ==
    {i \in 1..Len(analyses) :
        analyses[i].date = analyse_complete.date_analyse}

\* analyses_existantes: the positions of the analyses of the date and parcel
AnalysesExistantes(analyses, analyse_complete) ==
    {i \in 1..Len(analyses) :
        /\ analyses[i].date = analyse_complete.date_analyse
        /\ analyses[i].parcelle = analyse_complete.parcelle}

\* campagne['analyses'].index(analyses_existantes[0]): the first position
\* that holds an analysis equal to the first one found
IndexAnalyse(analyses, analyse_complete) ==
    LET existantes == AnalysesExistantes(analyses, analyse_complete)
        premiere == analyses[CHOOSE i \in existantes :
                                 \A j \in existantes : i <= j]
    IN  CHOOSE i \in 1..Len(analyses) :
            /\ analyses[i] = premiere
            /\ \A j \in 1..(i - 1) : analyses[j] # premiere

\* ajouter_analyse: the campaigns after the call
AjouterAnalyse(campagnes, analyse_complete) ==
    LET annee == Annee(analyse_complete.date_analyse)
        avec == IF GetCampagne(campagnes, annee) = 0
                THEN CreerCampagne(campagnes, annee) ELSE campagnes
        c == GetCampagne(avec, annee)
        analyses == avec[c].analyses
    IN  IF AnalysesExistantes(analyses, analyse_complete) # {}
        THEN [avec EXCEPT ![c].analyses[IndexAnalyse(analyses,
                                                     analyse_complete)] =
                  AnalyseSimplifiee(analyse_complete)]
        ELSE [avec EXCEPT ![c].analyses =
                  Append(analyses, AnalyseSimplifiee(analyse_complete))]

\* the dates of the analyses: two days of a year, one of the next
DatesAnalyse == {Jour(2025, 6, 1), Jour(2025, 6, 2), Jour(2026, 6, 1)}

\* the complete analyses handed to ajouter_analyse (the keys that tell two
\* analyses of a parcel and date apart): of both parcels in the first year,
\* of the first parcel in the second
AnalysesCompletes ==
    {[date_analyse |-> dp[1], parcelle |-> dp[2],
      risque_infection |-> [score |-> r[1]],
      decision |-> [urgence |-> r[2]]] :
        dp \in {x \in DatesAnalyse \X Parcelles :
                   Annee(x[1]) = 2025 \/ x[2] = "Parcelle 1"},
        r \in {<<0, "faible">>, <<100, "haute">>}}

\* no call of ajouter_analyse yet
AucuneAnalyseAjoutee ==
    [date_analyse |-> NULL, parcelle |-> "",
     risque_infection |-> [score |-> NULL], decision |-> [urgence |-> ""]]

\* the variables of the history of analyses before any call
AlertesInactives ==
    /\ historique_alertes = <<>>
    /\ alertes_persistees = <<>>
    /\ derniere_analyse = AucuneAnalyseAjoutee

(***************************************************************************)
(* Two SystemeDecision instances on one persisted store                    *)
(*   Each instance holds its own meteo_historique; the file is read by     *)
(*   the load and rewritten whole by the save, with nothing held between   *)
(*   the two.                                                              *)
(***************************************************************************)
Instances == {"A", "B"}

\* an instance before its construction
InstanceArret ==
    [pc |-> "arret", meteo_historique |-> <<>>,
     meteo_data_recent |-> AucunLot]

\* the variables of the instances before any construction
ConcurrenceInactive == instances = [i \in Instances |-> InstanceArret]

(***************************************************************************)
(* The product list: charger_produits, ajouter_traitement and the product  *)
(* forms of the parameter page                                             *)
(*   The list is the stored file 'produits', read anew by every           *)
(*   ajouter_traitement; the forms rewrite that file and no other.         *)
(***************************************************************************)
\* the list saved by the first charger_produits: INITIAL_FONGICIDES
ProduitsInitiaux == FONGICIDES

\* charger_produits: the stored list by id, or INITIAL_FONGICIDES (saved at
\* once) when the stored list is empty
ChargerProduits(prods) ==
    IF DOMAIN prods = {} THEN FONGICIDES ELSE prods

\* ajouter_traitement: a copy of the entry of the product, or the default
\* characteristics of a product the list does not hold
CaracteristiquesProduit(prods, produit) ==
    IF produit \in DOMAIN prods
    THEN prods[produit]
    ELSE [persistance_jours |-> 7, lessivage_seuil_mm |-> 25,
          type |-> "contact"]

\* the treatment appended by ajouter_traitement under the list `prods`
TraitementProduit(prods, parcelle, date, produit) ==
    [parcelle |-> parcelle, date |-> date, produit |-> produit,
     caracteristiques |-> CaracteristiquesProduit(prods, produit)]

\* the values submitted with form_edit_produit: the least persistence and
\* the least leaching threshold the number inputs accept (min_value=0)
FormulairesProduit ==
    {[persistance_jours |-> 0, lessivage_seuil_mm |-> 15, type |-> "contact"],
     [persistance_jours |-> 4, lessivage_seuil_mm |-> 0,
      type |-> "systemique"]}

\* the products the forms are submitted for
ProduitsModifies == {"soufre"}

\* the products and the dates handed to ajouter_traitement
ProduitsSaisis == {"soufre", "cymoxanil"}

DatesSaisie == {JourTraitement, JourTraitement + 3}

\* an edit that rewrites the snapshots of the logged treatments of the
\* product as well
EditionProduitPropagee(prods, trts, id, formulaire) ==
    [produits |-> [prods EXCEPT ![id] = formulaire],
     traitements |->
         [i \in 1..Len(trts) |->
             IF trts[i].produit = id
             THEN [trts[i] EXCEPT !.caracteristiques = formulaire]
             ELSE trts[i]]]

\* form_edit_produit, "Sauvegarder": the stored files after it; the entry of
\* the product takes the submitted values, the log of treatments is not
\* written
EditionProduit(prods, trts, id, formulaire) ==
    [produits |-> [prods EXCEPT ![id] = formulaire], traitements |-> trts]

\* form_edit_produit, "Supprimer": the stored files after it; the entry of
\* the product leaves the list, the log of treatments is not written
SuppressionProduit(prods, trts, id) ==
    [produits |-> [k \in DOMAIN prods \ {id} |-> prods[k]],
     traitements |-> trts]

\* the stores of the runs on the product list: dry from the reference day
\* on, but for a possible rain six days after it
StoresProduits ==
    {s \in StoresProtection :
        /\ s[JourTraitement].precipitation = 0
        /\ s[JourTraitement + 3].precipitation = 0
        /\ s[JourTraitement + 6].precipitation \in {0, 64}}

\* the product list before any form is submitted
ProduitsInactifs == produits = ProduitsInitiaux

\* the variables of the components specified after the stage updates, at
\* rest
ApresInactif ==
    /\ RisqueInactif
    /\ AlertesInactives
    /\ ConcurrenceInactive
    /\ ProduitsInactifs

\* the variables of the components specified after the decision, at rest
SuiteInactive ==
    /\ ProtectionInactive
    /\ IpiInactif
    /\ ConfigInactive
    /\ GddInactif
    /\ ApresInactif

(***************************************************************************)
(* Actions of the weather store                                            *)
(***************************************************************************)
InitMeteo ==
    /\ aujourdhui = JourAncien
    /\ pc = "arret"
    /\ meteo_historique = <<>>
    /\ meteo_persistee = <<>>
    /\ gdd_persiste = <<>>
    /\ meteo_data_recent = AucunLot
    /\ BilanInactif
    /\ DecisionInactive
    /\ SuiteInactive

\* SystemeDecision.__init__, first half: the store is loaded from the file
Charger ==
    /\ pc \in {"arret", "pret"}
    /\ pc' = "charge"
    /\ meteo_historique' = meteo_persistee
    /\ meteo_data_recent' = AucunLot
    /\ UNCHANGED <<aujourdhui, meteo_persistee, gdd_persiste, varsBilan,
                   varsDecision, varsSuite>>

\* MettreAJour without the early return on an empty batch: the store is
\* saved, hence pruned, whatever the API answered
MettreAJourSansRetour(lot) ==
    /\ pc = "charge"
    /\ pc' = "pret"
    /\ meteo_data_recent' = lot
    /\ meteo_historique' = Fusionner(meteo_historique, lot)
    /\ meteo_persistee' = DataASauver(meteo_historique', aujourdhui)
    /\ gdd_persiste' = GddData(meteo_persistee')
    /\ UNCHANGED <<aujourdhui, varsBilan, varsDecision, varsSuite>>

\* _mettre_a_jour_historique_meteo with the batch `lot` returned by the API:
\* called by __init__ right after the load
MettreAJour(lot) ==
    /\ pc = "charge"
    /\ pc' = "pret"
    /\ meteo_data_recent' = lot
    /\ IF EstVide(lot)
       THEN UNCHANGED <<meteo_historique, meteo_persistee, gdd_persiste>>
       ELSE /\ meteo_historique' = Fusionner(meteo_historique, lot)
            /\ meteo_persistee' = DataASauver(meteo_historique', aujourdhui)
            /\ gdd_persiste' = GddData(meteo_persistee')
    /\ UNCHANGED <<aujourdhui, varsBilan, varsDecision, varsSuite>>

MettreAJourHistoriqueMeteo ==
    \E lot \in GetMeteoData(aujourdhui) : MettreAJour(lot)

\* the calendar moves on to a later day of execution
PasserJour ==
    /\ pc \in {"arret", "pret"}
    /\ \E j \in JoursExecution : j > aujourdhui /\ aujourdhui' = j
    /\ meteo_data_recent' = AucunLot
    /\ UNCHANGED <<pc, meteo_historique, meteo_persistee, gdd_persiste,
                   varsBilan, varsDecision, varsSuite>>

Next == Charger \/ MettreAJourHistoriqueMeteo \/ PasserJour

Spec == InitMeteo /\ [][Next]_vars

(***************************************************************************)
(* Water balance and report (specification SpecBilan)                      *)
(***************************************************************************)
\* the stores the balance is computed on, on day `jour`: any subset of the
\* dates known on that day, merged from complete days; the dates before the
\* hydrological cycle and the forecast dates carry a storm
StoresBilan(jour) ==
    LET connus == {d \in DatesBilan : d <= jour + JoursFuturs}
        libres == {d \in connus : d >= DateCycleDebut(jour) /\ d <= jour}
    IN  UNION {
            {Fusionner(<<>>, [etat |-> "recu",
                              jours |-> [d \in S |-> JourComplet(t[d])]]) :
                t \in {f \in [S -> TypesJour] :
                          \A d \in S \ libres : f[d] = Orage}} :
            S \in SUBSET connus}

\* a parcel and a store on which analyser_parcelle calls the water balance
InitBilan ==
    /\ aujourdhui \in JoursBilan
    /\ pc = "appel"
    /\ meteo_historique \in StoresBilan(aujourdhui)
    /\ meteo_persistee = DataASauver(meteo_historique, aujourdhui)
    /\ gdd_persiste = GddData(meteo_persistee)
    /\ meteo_data_recent = AucunLot
    /\ stade_manuel \in StadesManuels
    /\ rfu_max_mm \in CapacitesRfu
    \* _calculer_gdd returns 0 heat units for a parcel in dormancy
    /\ gdd_cumul_actuel \in IF stade_manuel = "repos" THEN {0} ELSE GddCumuls
    /\ dates_utiles = <<>>
    /\ i_date = 0
    /\ rfu_actuelle_mm = 0
    /\ ks_actuel = 0
    /\ rfu_historique_pct = <<>>
    /\ bilan_h = AucunBilan
    /\ alerte_stress = FALSE
    /\ DecisionInactive
    /\ SuiteInactive

\* calculer_bilan_rfu up to the loop: the dates are selected; without any
\* usable date the function returns at once
BilanAppel ==
    /\ pc = "appel"
    /\ dates_utiles' = DatesUtiles(meteo_historique, aujourdhui)
    /\ i_date' = 0
    /\ rfu_historique_pct' = <<>>
    /\ IF dates_utiles' = <<>>
       THEN /\ pc' = "retour"
            /\ bilan_h' = [rfu_pct |-> 1000, rfu_mm |-> rfu_max_mm \div 100,
                           rfu_max_mm |-> rfu_max_mm,
                           niveau |-> "Donnees insuffisantes",
                           historique_pct |-> <<>>, ks_actuel |-> 100]
            /\ UNCHANGED <<rfu_actuelle_mm, ks_actuel>>
       ELSE /\ pc' = "boucle"
            /\ rfu_actuelle_mm' = rfu_max_mm
            /\ ks_actuel' = 1000
            /\ UNCHANGED bilan_h
    /\ UNCHANGED <<aujourdhui, varsMeteo, stade_manuel, rfu_max_mm,
                   gdd_cumul_actuel, alerte_stress,
                   varsDecision, varsSuite>>

\* one iteration of the loop of calculer_bilan_rfu
BilanJour ==
    /\ pc = "boucle"
    /\ i_date < Len(dates_utiles)
    /\ LET date_obj == dates_utiles[i_date + 1]
           data_jour == meteo_historique[date_obj]
           pluie == OuZero(data_jour.precipitation)
           etp0 == OuZero(data_jour.etp0)
           Kc == KcDuJour(date_obj, i_date, Len(dates_utiles), gdd_cumul_actuel)
           ks == KsDuJour(rfu_actuelle_mm, rfu_max_mm)
           P_eff == PluieEfficace(pluie)
           ETc == EvapoCulture(Kc, etp0, ks)
           rfu == NouvelleReserve(rfu_max_mm, rfu_actuelle_mm, P_eff, ETc)
       IN  /\ ks_actuel' = ks
           /\ rfu_actuelle_mm' = rfu
           /\ rfu_historique_pct' =
                 [d \in DOMAIN rfu_historique_pct \cup {date_obj} |->
                     IF d = date_obj THEN PourcentRfu(rfu, rfu_max_mm)
                     ELSE rfu_historique_pct[d]]
    /\ i_date' = i_date + 1
    /\ UNCHANGED <<aujourdhui, pc, varsMeteo, stade_manuel, rfu_max_mm,
                   gdd_cumul_actuel, dates_utiles, bilan_h, alerte_stress,
                   varsDecision, varsSuite>>

\* calculer_bilan_rfu after the loop: the final percentage, the alert level
\* and the returned dict
BilanRetour ==
    /\ pc = "boucle"
    /\ i_date = Len(dates_utiles)
    /\ pc' = "retour"
    /\ LET niveau == NiveauRfu(rfu_actuelle_mm, rfu_max_mm) IN
       bilan_h' = [rfu_pct |-> PourcentRfu(rfu_actuelle_mm, rfu_max_mm),
                   rfu_mm |-> (rfu_actuelle_mm + 50) \div 100,
                   rfu_max_mm |-> rfu_max_mm,
                   niveau |-> IF stade_manuel = "repos"
                              THEN AvecDormance(niveau) ELSE niveau,
                   historique_pct |-> rfu_historique_pct,
                   ks_actuel |-> (ks_actuel + 5) \div 10]
    /\ UNCHANGED <<aujourdhui, varsMeteo, stade_manuel, rfu_max_mm,
                   gdd_cumul_actuel, dates_utiles, i_date, rfu_actuelle_mm,
                   ks_actuel, rfu_historique_pct, alerte_stress,
                   varsDecision, varsSuite>>

\* afficher_rapport: the water stress alert line of the report
AfficherRapport ==
    /\ pc = "retour"
    /\ pc' = "rapport"
    /\ alerte_stress' = (bilan_h.niveau = "STRESS FORT")
    /\ UNCHANGED <<aujourdhui, varsMeteo, stade_manuel, rfu_max_mm,
                   gdd_cumul_actuel, dates_utiles, i_date, rfu_actuelle_mm,
                   ks_actuel, rfu_historique_pct, bilan_h,
                   varsDecision, varsSuite>>

NextBilan == BilanAppel \/ BilanJour \/ BilanRetour \/ AfficherRapport

SpecBilan == InitBilan /\ [][NextBilan]_vars

(***************************************************************************)
(* Decision (specification SpecDecision)                                   *)
(***************************************************************************)
InitDecision ==
    /\ aujourdhui = JourRecent
    /\ pc = "pret"
    /\ meteo_historique = <<>>
    /\ meteo_persistee = <<>>
    /\ gdd_persiste = <<>>
    /\ meteo_data_recent = AucunLot
    /\ BilanInactif
    /\ DecisionInactive
    /\ SuiteInactive

\* analyser_parcelle, from the scores of the models to the returned dict
AnalyserParcelle ==
    /\ pc = "pret"
    /\ \E risque_simple \in ScoresRisque, protection \in ScoresProtection,
          niveau_oidium \in NiveauxOidium, pluie_prevue \in PluiesPrevues,
          niveau_bilan \in NiveauxBilan :
            analyse' = Analyse(risque_simple, protection, niveau_oidium,
                               pluie_prevue, niveau_bilan)
    /\ analyse_prec' = analyse
    /\ UNCHANGED <<aujourdhui, pc, varsMeteo, varsBilan, varsSuite>>

NextDecision == AnalyserParcelle

SpecDecision == InitDecision /\ [][NextDecision]_vars

(***************************************************************************)
(* Protection (specification SpecProtection)                               *)
(*   The treatments are logged first; then the protection is queried, on   *)
(*   its own or inside analyser_parcelle.  The query reads the log and the *)
(*   store and changes neither, so a run makes one query.                  *)
(***************************************************************************)
InitProtection ==
    /\ aujourdhui = JourTraitement
    /\ pc = "saisie"
    /\ meteo_historique \in StoresProtection
    /\ meteo_persistee = <<>>
    /\ gdd_persiste = <<>>
    /\ meteo_data_recent = AucunLot
    /\ stade_manuel \in StadesProtection
    /\ rfu_max_mm = 0
    /\ gdd_cumul_actuel = 0
    /\ dates_utiles = <<>>
    /\ i_date = 0
    /\ rfu_actuelle_mm = 0
    /\ ks_actuel = 0
    /\ rfu_historique_pct = <<>>
    /\ bilan_h = AucunBilan
    /\ alerte_stress = FALSE
    /\ DecisionInactive
    /\ ProtectionInactive
    /\ IpiInactif
    /\ ConfigInactive
    /\ GddInactif
    /\ ApresInactif

\* ajouter_traitement: the treatment is appended to the log
AjouterTraitement ==
    /\ pc = "saisie"
    /\ Len(traitements) < MaxTraitements
    /\ \E t \in TraitementsPossibles : traitements' = Append(traitements, t)
    /\ UNCHANGED <<aujourdhui, pc, varsMeteo, varsBilan, varsDecision,
                   protection_actuelle, varsSuiteSaufProtection>>

\* the result of calculer_protection_actuelle, with the query it answers
ResultatProtection(parcelle, date_actuelle) ==
    [parcelle |-> parcelle, date_actuelle |-> date_actuelle]
    @@ CalculerProtectionActuelle(meteo_historique, traitements, parcelle,
                                  date_actuelle, stade_manuel)

\* a call of calculer_protection_actuelle on its own; it ends the run with
\* its result or with the exception it raised
CalculerProtection ==
    /\ pc = "saisie"
    /\ \E parcelle \in Parcelles, date_actuelle \in DatesRequete :
          /\ aujourdhui' = date_actuelle
          /\ protection_actuelle' = ResultatProtection(parcelle, date_actuelle)
    /\ pc' = IF protection_actuelle'.facteur_limitant = "ZeroDivisionError"
             THEN "erreur" ELSE "protege"
    /\ UNCHANGED <<varsMeteo, varsBilan, varsDecision, traitements,
                   varsSuiteSaufProtection>>

\* analyser_parcelle: the two risks and the protection are computed on the
\* store and the stage of the parcel, and the decision is taken on them
AnalyserParcelleProtegee ==
    /\ pc = "saisie"
    /\ \E parcelle \in Parcelles, date_actuelle \in DatesRequete :
          LET resultat == ResultatProtection(parcelle, date_actuelle)
              stade_coef == StadeCoef(stade_manuel)
              meteo_48h == MeteoFenetre(meteo_historique, date_actuelle, 3)
              risque_simple ==
                  ModeleSimpleRisque(meteo_48h, stade_coef,
                      SommeSensibilites(CepagesParcelle(parcelle)),
                      Len(CepagesParcelle(parcelle)))
              oidium ==
                  ModeleOidiumRisque(
                      MeteoFenetre(meteo_historique, date_actuelle, 7),
                      stade_coef)
          IN  /\ aujourdhui' = date_actuelle
              /\ protection_actuelle' = resultat
              /\ analyse' = Analyse(risque_simple.score, resultat.score,
                                    oidium.niveau, 0, "CONFORTABLE")
    /\ analyse_prec' = analyse
    /\ pc' = "analyse"
    /\ UNCHANGED <<varsMeteo, varsBilan, traitements,
                   varsSuiteSaufProtection>>

NextProtection ==
    \/ AjouterTraitement
    \/ CalculerProtection
    \/ AnalyserParcelleProtegee

SpecProtection == InitProtection /\ [][NextProtection]_vars

(***************************************************************************)
(* Infection potential (specification SpecIpi)                             *)
(***************************************************************************)
InitIpi ==
    /\ aujourdhui = JourRecent
    /\ pc = "pret"
    /\ meteo_historique = <<>>
    /\ meteo_persistee = <<>>
    /\ gdd_persiste = <<>>
    /\ meteo_data_recent = AucunLot
    /\ BilanInactif
    /\ DecisionInactive
    /\ ProtectionInactive
    /\ meteo_evenement \in [temp_moy : TempsIpi]
    /\ duree_humectation_estimee \in DureesIpi
    /\ ipi_value = NULL
    /\ ConfigInactive
    /\ GddInactif
    /\ ApresInactif

\* a call of calculer_ipi
AppelerCalculerIpi ==
    /\ pc = "pret"
    /\ ipi_value' = CalculerIpi(meteo_evenement, duree_humectation_estimee)
    /\ pc' = "ipi"
    /\ UNCHANGED <<aujourdhui, varsMeteo, varsBilan, varsDecision,
                   varsProtection, meteo_evenement, duree_humectation_estimee,
                   varsConfig, varsGdd, varsApres>>

NextIpi == AppelerCalculerIpi

SpecIpi == InitIpi /\ [][NextIpi]_vars

(***************************************************************************)
(* Heat sum and stage forecast (specification SpecGdd)                     *)
(*   analyser_parcelle calls _calculer_gdd on the first parcel, then       *)
(*   _predire_stade_futur on what it returned.                             *)
(***************************************************************************)
InitGdd ==
    /\ aujourdhui \in DatesGdd
    /\ pc = "pret"
    /\ meteo_historique \in StoresGdd
    /\ meteo_persistee = <<>>
    /\ gdd_persiste = <<>>
    /\ meteo_data_recent = AucunLot
    /\ \E p \in ParcellesGdd :
          /\ parcelles = [ParcellesDefaut EXCEPT !["Parcelle 1"] = p]
          /\ stade_manuel = p.stade_actuel
    /\ config_persistee = parcelles
    /\ dernier_appel = AucunAppel
    /\ rfu_max_mm = 0
    /\ gdd_cumul_actuel = 0
    /\ dates_utiles = <<>>
    /\ i_date = 0
    /\ rfu_actuelle_mm = 0
    /\ ks_actuel = 0
    /\ rfu_historique_pct = <<>>
    /\ bilan_h = AucunBilan
    /\ alerte_stress = FALSE
    /\ DecisionInactive
    /\ ProtectionInactive
    /\ IpiInactif
    /\ GddInactif
    /\ ApresInactif

\* the call of _calculer_gdd
AppelerCalculerGdd ==
    /\ pc = "pret"
    /\ gdd_sum' = IF stade_manuel = "repos" THEN 0
                  ELSE GddSum(parcelles["Parcelle 1"], meteo_historique,
                              aujourdhui)
    /\ resultat_gdd' = CalculerGdd(parcelles["Parcelle 1"], meteo_historique,
                                   aujourdhui, stade_manuel)
    /\ pc' = "gdd"
    /\ UNCHANGED <<aujourdhui, varsMeteo, varsBilan, varsDecision,
                   varsProtection, varsIpi, varsConfig, prevision_stade,
                   varsApres>>

\* the call of _predire_stade_futur
AppelerPredireStadeFutur ==
    /\ pc = "gdd"
    /\ prevision_stade' =
           PredireStadeFutur(meteo_historique, aujourdhui, resultat_gdd.gdd,
                             resultat_gdd.prochain_stade_gdd, stade_manuel)
    /\ pc' = "prevu"
    /\ UNCHANGED <<aujourdhui, varsMeteo, varsBilan, varsDecision,
                   varsProtection, varsIpi, varsConfig, gdd_sum,
                   resultat_gdd, varsApres>>

NextGdd ==
    \/ AppelerCalculerGdd
    \/ AppelerPredireStadeFutur

SpecGdd == InitGdd /\ [][NextGdd]_vars

(***************************************************************************)
(* Stage updates (specification SpecConfig)                                *)
(***************************************************************************)
InitConfig ==
    /\ aujourdhui = JourRecent
    /\ pc = "pret"
    /\ meteo_historique = <<>>
    /\ meteo_persistee = <<>>
    /\ gdd_persiste = <<>>
    /\ meteo_data_recent = AucunLot
    /\ BilanInactif
    /\ DecisionInactive
    /\ ProtectionInactive
    /\ IpiInactif
    /\ ConfigInactive
    /\ GddInactif
    /\ ApresInactif

\* ConfigVignoble.update_parcelle_stade_et_date: an unknown stage or an
\* unknown parcel is refused; otherwise the stage of the parcel is set, its
\* biofix date is set or cleared, and the configuration is saved
UpdateParcelleStadeEtDate ==
    \E nom_parcelle \in NomsAppel, nouveau_stade \in StadesAppel,
       date_debourrement \in DatesAppel :
        LET accepte == AppelAccepte(parcelles, nom_parcelle, nouveau_stade)
        IN  /\ parcelles' =
                   IF accepte
                   THEN [parcelles EXCEPT ![nom_parcelle] =
                            Parcelle(nouveau_stade,
                                     BiofixApres(parcelles[nom_parcelle],
                                                 nouveau_stade,
                                                 date_debourrement))]
                   ELSE parcelles
            /\ config_persistee' =
                   IF accepte THEN parcelles' ELSE config_persistee
            /\ dernier_appel' =
                   [nom_parcelle |-> nom_parcelle,
                    nouveau_stade |-> nouveau_stade,
                    date_debourrement |-> date_debourrement,
                    date_avant |->
                        IF nom_parcelle \in DOMAIN parcelles
                        THEN parcelles[nom_parcelle].date_debourrement
                        ELSE NULL,
                    retour |-> accepte]
            /\ UNCHANGED <<aujourdhui, pc, varsMeteo, varsBilan, varsDecision,
                           varsProtection, varsIpi, varsGdd, varsApres>>

NextConfig == UpdateParcelleStadeEtDate

SpecConfig == InitConfig /\ [][NextConfig]_vars

(***************************************************************************)
(* Risk models (specification SpecRisque)                                  *)
(*   analyser_parcelle hands the last three days of the store to the       *)
(*   simple model and the last seven to the powdery mildew model.          *)
(***************************************************************************)
InitRisque ==
    /\ aujourdhui = JourRecent
    /\ pc = "pret"
    /\ meteo_historique = <<>>
    /\ meteo_persistee = <<>>
    /\ gdd_persiste = <<>>
    /\ meteo_data_recent = AucunLot
    /\ BilanInactif
    /\ DecisionInactive
    /\ ProtectionInactive
    /\ IpiInactif
    /\ ConfigInactive
    /\ GddInactif
    /\ meteo_7j \in FenetresRisque
    /\ parcelle_analysee \in ParcellesRisque
    /\ risque_infection = AucunRisque
    /\ risque_oidium = AucunRisque
    /\ AlertesInactives
    /\ ConcurrenceInactive
    /\ ProduitsInactifs

\* the call of ModeleSimple.calculer_risque_infection
CalculerRisqueSimple ==
    /\ risque_infection = AucunRisque
    /\ risque_infection' =
           ModeleSimpleRisque(Meteo48h(meteo_7j),
                              StadeCoef(parcelle_analysee.stade_actuel),
                              SommeSensibilites(parcelle_analysee.cepages),
                              Len(parcelle_analysee.cepages))
    /\ UNCHANGED <<aujourdhui, pc, varsMeteo, varsBilan, varsDecision,
                   varsProtection, varsIpi, varsConfig, varsGdd, meteo_7j,
                   parcelle_analysee, risque_oidium, varsAlertes,
                   varsConcurrence, varsProduits>>

\* the call of ModeleOidium.calculer_risque_infection
CalculerRisqueOidium ==
    /\ risque_oidium = AucunRisque
    /\ risque_oidium' =
           ModeleOidiumRisque(meteo_7j,
                              StadeCoef(parcelle_analysee.stade_actuel))
    /\ UNCHANGED <<aujourdhui, pc, varsMeteo, varsBilan, varsDecision,
                   varsProtection, varsIpi, varsConfig, varsGdd, meteo_7j,
                   parcelle_analysee, risque_infection, varsAlertes,
                   varsConcurrence, varsProduits>>

NextRisque ==
    \/ CalculerRisqueSimple
    \/ CalculerRisqueOidium

SpecRisque == InitRisque /\ [][NextRisque]_vars

(***************************************************************************)
(* History of analyses (specification SpecAlertes)                         *)
(***************************************************************************)
InitAlertes ==
    /\ aujourdhui = JourRecent
    /\ pc = "pret"
    /\ meteo_historique = <<>>
    /\ meteo_persistee = <<>>
    /\ gdd_persiste = <<>>
    /\ meteo_data_recent = AucunLot
    /\ BilanInactif
    /\ DecisionInactive
    /\ ProtectionInactive
    /\ IpiInactif
    /\ ConfigInactive
    /\ GddInactif
    /\ RisqueInactif
    /\ AlertesInactives
    /\ ConcurrenceInactive
    /\ ProduitsInactifs

\* GestionHistoriqueAlertes.ajouter_analyse: the snapshot replaces the one
\* of its parcel and date or is appended to the campaign of its year, and
\* the history is saved
AppelerAjouterAnalyse ==
    \E analyse_complete \in AnalysesCompletes :
        /\ historique_alertes' =
               AjouterAnalyse(historique_alertes, analyse_complete)
        /\ alertes_persistees' = historique_alertes'
        /\ derniere_analyse' = analyse_complete
        /\ UNCHANGED <<aujourdhui, pc, varsMeteo, varsBilan, varsDecision,
                       varsProtection, varsIpi, varsConfig, varsGdd,
                       varsRisque, varsConcurrence, varsProduits>>

NextAlertes == AppelerAjouterAnalyse

SpecAlertes == InitAlertes /\ [][NextAlertes]_vars

(***************************************************************************)
(* Overlapping refresh cycles (specification SpecConcurrence)              *)
(*   The constructors of two instances run side by side; the steps of one  *)
(*   are its load, its merge of the batch of the API and its save.         *)
(***************************************************************************)
InitConcurrence ==
    /\ aujourdhui = JourRecent
    /\ pc = "pret"
    /\ meteo_historique = <<>>
    /\ meteo_persistee = <<>>
    /\ gdd_persiste = <<>>
    /\ meteo_data_recent = AucunLot
    /\ BilanInactif
    /\ DecisionInactive
    /\ SuiteInactive

\* _charger_meteo_historique of instance i
ChargerInstance(i) ==
    /\ instances[i].pc = "arret"
    /\ instances' = [instances EXCEPT ![i].pc = "charge",
                                      ![i].meteo_historique = meteo_persistee]
    /\ UNCHANGED <<aujourdhui, pc, varsMeteo, varsBilan, varsDecision,
                   varsProtection, varsIpi, varsConfig, varsGdd, varsRisque,
                   varsAlertes, varsProduits>>

\* _mettre_a_jour_historique_meteo of instance i, up to the save: the batch
\* is fetched and merged into the store of the instance; an empty batch ends
\* the cycle
FusionnerInstance(i) ==
    /\ instances[i].pc = "charge"
    /\ \E lot \in GetMeteoData(aujourdhui) :
          instances' =
              [instances EXCEPT
                  ![i].pc = IF EstVide(lot) THEN "fini" ELSE "fusionne",
                  ![i].meteo_data_recent = lot,
                  ![i].meteo_historique =
                      IF EstVide(lot) THEN @ ELSE Fusionner(@, lot)]
    /\ UNCHANGED <<aujourdhui, pc, varsMeteo, varsBilan, varsDecision,
                   varsProtection, varsIpi, varsConfig, varsGdd, varsRisque,
                   varsAlertes, varsProduits>>

\* _sauvegarder_meteo_historique of instance i: the two files are rewritten
\* from the store of the instance
SauvegarderInstance(i) ==
    /\ instances[i].pc = "fusionne"
    /\ instances' = [instances EXCEPT ![i].pc = "fini"]
    /\ meteo_persistee' =
           DataASauver(instances[i].meteo_historique, aujourdhui)
    /\ gdd_persiste' = GddData(meteo_persistee')
    /\ UNCHANGED <<aujourdhui, pc, meteo_historique, meteo_data_recent,
                   varsBilan, varsDecision, varsProtection, varsIpi,
                   varsConfig, varsGdd, varsRisque, varsAlertes,
                   varsProduits>>

NextConcurrence ==
    \E i \in Instances :
        \/ ChargerInstance(i)
        \/ FusionnerInstance(i)
        \/ SauvegarderInstance(i)

SpecConcurrence == InitConcurrence /\ [][NextConcurrence]_vars

(***************************************************************************)
(* Product list (specification SpecProduits)                               *)
(*   Treatments are logged while the forms of the parameter page edit and  *)
(*   delete a product; then the protection is queried.                     *)
(***************************************************************************)
InitProduits ==
    /\ aujourdhui = JourTraitement
    /\ pc = "saisie"
    /\ meteo_historique \in StoresProduits
    /\ meteo_persistee = <<>>
    /\ gdd_persiste = <<>>
    /\ meteo_data_recent = AucunLot
    /\ stade_manuel \in StadesProtection
    /\ rfu_max_mm = 0
    /\ gdd_cumul_actuel = 0
    /\ dates_utiles = <<>>
    /\ i_date = 0
    /\ rfu_actuelle_mm = 0
    /\ ks_actuel = 0
    /\ rfu_historique_pct = <<>>
    /\ bilan_h = AucunBilan
    /\ alerte_stress = FALSE
    /\ DecisionInactive
    /\ SuiteInactive

\* ajouter_traitement: the product list is read anew, and the treatment is
\* appended to the log with a copy of the entry of its product
AjouterTraitementProduit ==
    /\ pc = "saisie"
    /\ Len(traitements) < MaxTraitements
    /\ \E date \in DatesSaisie, produit \in ProduitsSaisis :
          LET liste == ChargerProduits(produits)
          IN  /\ produits' = liste
              /\ traitements' =
                     Append(traitements,
                            TraitementProduit(liste, "Parcelle 1", date,
                                              produit))
    /\ UNCHANGED <<aujourdhui, pc, varsMeteo, varsBilan, varsDecision,
                   protection_actuelle, varsIpi, varsConfig, varsGdd,
                   varsRisque, varsAlertes, varsConcurrence>>

\* form_edit_produit, "Sauvegarder"
ModifierProduit ==
    /\ pc = "saisie"
    /\ \E id \in ProduitsModifies \cap DOMAIN produits,
          formulaire \in FormulairesProduit :
          LET apres == EditionProduit(produits, traitements, id, formulaire)
          IN  /\ produits' = apres.produits
              /\ traitements' = apres.traitements
    /\ UNCHANGED <<aujourdhui, pc, varsMeteo, varsBilan, varsDecision,
                   protection_actuelle, varsIpi, varsConfig, varsGdd,
                   varsRisque, varsAlertes, varsConcurrence>>

\* form_edit_produit, "Supprimer"
SupprimerProduit ==
    /\ pc = "saisie"
    /\ \E id \in ProduitsModifies \cap DOMAIN produits :
          LET apres == SuppressionProduit(produits, traitements, id)
          IN  /\ produits' = apres.produits
              /\ traitements' = apres.traitements
    /\ UNCHANGED <<aujourdhui, pc, varsMeteo, varsBilan, varsDecision,
                   protection_actuelle, varsIpi, varsConfig, varsGdd,
                   varsRisque, varsAlertes, varsConcurrence>>

NextProduits ==
    \/ AjouterTraitementProduit
    \/ ModifierProduit
    \/ SupprimerProduit
    \/ CalculerProtection

SpecProduits == InitProduits /\ [][NextProduits]_vars

(***************************************************************************)
(* Claims on the weather store (specification Spec)                        *)
(***************************************************************************)
\* a step of _mettre_a_jour_historique_meteo, recognised by the positions
\* before and after it
EtapeMiseAJour ==
    /\ pc = "charge"
    /\ pc' = "pret"
    /\ aujourdhui' = aujourdhui

\* C1: in a merge, a field that was stored non-null and comes in null keeps
\* its stored value, in memory and in the saved file.
C1_FusionNonDestructive ==
    [][EtapeMiseAJour =>
        \A d \in DOMAIN meteo_historique \cap DOMAIN meteo_data_recent'.jours :
            \A c \in ChampsBruts :
                (meteo_historique[d][c] # NULL
                    /\ meteo_data_recent'.jours[d][c] = NULL)
                => /\ d \in DOMAIN meteo_historique'
                   /\ meteo_historique'[d][c] = meteo_historique[d][c]
                   /\ d \in DOMAIN meteo_persistee'
                   /\ meteo_persistee'[d][c] = meteo_historique[d][c]]_vars

\* C1 witness: a merge has written a day whose incoming maximal temperature
\* was null, and the store still holds a maximal temperature for that day
\* (the merge has no fallback for it: it was stored before).
C1_Temoin ==
    /\ pc = "pret"
    /\ meteo_data_recent.etat = "recu"
    /\ \E d \in DOMAIN meteo_data_recent.jours :
        /\ ~JourIgnore(meteo_data_recent.jours[d])
        /\ meteo_data_recent.jours[d].temp_max = NULL
        /\ meteo_historique[d].temp_max # NULL

\* C2: merging the batch just merged a second time, on the same day, leaves
\* the store in memory and both saved files as they are.
C2_FusionIdempotente ==
    (pc = "pret" /\ meteo_data_recent.etat = "recu") =>
        LET encore == Fusionner(meteo_historique, meteo_data_recent)
            sauve == DataASauver(encore, aujourdhui)
        IN  /\ encore = meteo_historique
            /\ sauve = meteo_persistee
            /\ GddData(sauve) = gdd_persiste

\* C2 witness: the batch just merged wrote a day with some fields null and
\* some not, on a store that already held that day with other values.
C2_Temoin ==
    /\ pc = "pret"
    /\ meteo_data_recent.etat = "recu"
    /\ \E d \in DOMAIN meteo_data_recent.jours :
        /\ meteo_data_recent.jours[d].precipitation # NULL
        /\ meteo_data_recent.jours[d].temp_max = NULL
        /\ meteo_historique[d].temp_max # NULL
        /\ meteo_historique[d].precipitation = meteo_data_recent.jours[d].precipitation

\* C3: when the fetch fails, _mettre_a_jour_historique_meteo changes neither
\* the store in memory (which it returns) nor the saved files.
C3_EchecSansEffet ==
    [][(EtapeMiseAJour /\ meteo_data_recent'.etat = "echec") =>
        /\ meteo_historique' = meteo_historique
        /\ meteo_persistee' = meteo_persistee
        /\ gdd_persiste' = gdd_persiste]_vars

\* C3 witness: a fetch has failed on an instance whose store, loaded from the
\* file, holds a day that a save would prune.
C3_Temoin ==
    /\ pc = "pret"
    /\ meteo_data_recent.etat = "echec"
    /\ \E d \in DOMAIN meteo_historique :
        /\ aujourdhui - d > Retention
        /\ d \in DOMAIN meteo_persistee

\* C4 (the claim as stated): in a merge every non-null incoming field is
\* stored, whatever the other fields of the incoming record are.
C4_ChampsIndependants ==
    [][EtapeMiseAJour =>
        \A d \in DOMAIN meteo_data_recent'.jours :
            \A c \in ChampsBruts :
                meteo_data_recent'.jours[d][c] # NULL
                => /\ d \in DOMAIN meteo_historique'
                   /\ meteo_historique'[d][c] = meteo_data_recent'.jours[d][c]]_vars

\* C5 (the claim as stated): a merge whose incoming record for a stored date
\* has no temperature but some other field leaves the stored mean
\* temperature and daily heat units of that date unchanged.
C5_TempMoyConservee ==
    [][EtapeMiseAJour =>
        \A d \in DOMAIN meteo_historique \cap DOMAIN meteo_data_recent'.jours :
            LET data == meteo_data_recent'.jours[d] IN
            (/\ data.temp_max = NULL
             /\ data.temp_min = NULL
             /\ \E c \in ChampsBruts : data[c] # NULL)
            => /\ meteo_historique'[d].temp_moy = meteo_historique[d].temp_moy
               /\ meteo_historique'[d].gdd_jour = meteo_historique[d].gdd_jour]_vars

\* entry d is older than the retention window and not of the current year
HorsRetention(d) ==
    aujourdhui - d > Retention /\ Annee(d) # Annee(aujourdhui)

\* C6 (the claim as stated): right after a successful refresh neither the
\* saved store nor the store in memory holds an entry older than 366 days
\* that is not of the current calendar year.
C6_StoreElague ==
    (pc = "pret" /\ meteo_data_recent.etat = "recu") =>
        /\ \A d \in DOMAIN meteo_persistee : ~HorsRetention(d)
        /\ \A d \in DOMAIN meteo_historique : ~HorsRetention(d)

(***************************************************************************)
(* Claims on the water balance and the report (specification SpecBilan)    *)
(***************************************************************************)
\* C7: in calculer_bilan_rfu the carried reserve lies between 0 and the
\* capacity after every simulated day, and every percentage of the per-day
\* trace and the final rfu_pct lie between 0 and 100.
C7_ReserveBornee ==
    /\ pc = "boucle" =>
          /\ 0 <= rfu_actuelle_mm /\ rfu_actuelle_mm <= rfu_max_mm
          /\ \A d \in DOMAIN rfu_historique_pct :
                0 <= rfu_historique_pct[d] /\ rfu_historique_pct[d] <= 1000
    /\ pc \in {"retour", "rapport"} =>
          /\ 0 <= bilan_h.rfu_pct /\ bilan_h.rfu_pct <= 1000
          /\ 0 <= bilan_h.rfu_mm * 100 /\ bilan_h.rfu_mm * 100 <= rfu_max_mm
          /\ \A d \in DOMAIN bilan_h.historique_pct :
                /\ 0 <= bilan_h.historique_pct[d]
                /\ bilan_h.historique_pct[d] <= 1000

\* C7 witness: a balance has returned for a parcel with a reserve, in which
\* a dry day asked for more water than the reserve held (the reserve ended
\* the day empty) and a later storm brought more water than the capacity
\* (the reserve ended the day full).
C7_Temoin ==
    /\ pc = "retour"
    /\ rfu_max_mm > 0
    /\ \E d1, d2 \in DOMAIN bilan_h.historique_pct :
        /\ d1 < d2
        /\ bilan_h.historique_pct[d1] = 0
        /\ bilan_h.historique_pct[d2] = 1000
        /\ PluieEfficace(meteo_historique[d2].precipitation) > rfu_max_mm

\* the final reserve is in the severe class of calculer_bilan_rfu
ClasseStressFort ==
    /\ dates_utiles # <<>>
    /\ rfu_actuelle_mm * 100 <= SeuilStressFort * rfu_max_mm

\* C10 (the claim as stated): the report raises the severe water stress
\* alert exactly when calculer_bilan_rfu classified the final reserve as
\* severe stress (at most 30 percent), whatever the manual stage.
C10_AlerteStressFort ==
    pc = "rapport" => (alerte_stress <=> ClasseStressFort)

(***************************************************************************)
(* Claims on the decision (specification SpecDecision)                     *)
(***************************************************************************)
\* C8 (the claim as stated): the decision score is the simple risk score
\* minus the protection score, and the verdict follows it with closed lower
\* boundaries: 'haute' (treat now) iff the score is at least 5, 'moyenne'
\* (monitor) iff it is at least 2 and below 5, 'faible' (no action) iff it is
\* below 2.
C8_VerdictParSeuils ==
    analyse # AucuneAnalyse =>
        LET score == analyse.risque_infection.score
                     - analyse.protection_actuelle.score
            dec == analyse.decision
        IN  /\ dec.score = score
            /\ (dec.urgence = "haute" <=> score >= SEUIL_DECISION_HAUTE)
            /\ (dec.action = "TRAITER MAINTENANT (Mildiou)"
                   <=> score >= SEUIL_DECISION_HAUTE)
            /\ (dec.urgence = "moyenne"
                   <=> (SEUIL_DECISION_MOYENNE <= score
                        /\ score < SEUIL_DECISION_HAUTE))
            /\ (dec.action = "Surveiller - Traiter si pluie annoncee (Mildiou)"
                   <=> (SEUIL_DECISION_MOYENNE <= score
                        /\ score < SEUIL_DECISION_HAUTE))
            /\ (dec.urgence = "faible" <=> score < SEUIL_DECISION_MOYENNE)
            /\ (dec.action = "Pas de traitement Mildiou necessaire"
                   <=> score < SEUIL_DECISION_MOYENNE)

\* C9: two analyses with the same simple risk score and the same protection
\* score have the same decision score, action and urgency, whatever their
\* forecast rainfall, powdery mildew tier and water balance level.
C9_AvisSansInfluence ==
    (/\ analyse # AucuneAnalyse
     /\ analyse_prec # AucuneAnalyse
     /\ analyse.risque_infection.score = analyse_prec.risque_infection.score
     /\ analyse.protection_actuelle.score
           = analyse_prec.protection_actuelle.score)
    => /\ analyse.decision.score = analyse_prec.decision.score
       /\ analyse.decision.action = analyse_prec.decision.action
       /\ analyse.decision.urgence = analyse_prec.decision.urgence

\* C9 witness: two consecutive analyses with the same risk and protection
\* scores, the first without any advisory, the second with the preventive
\* alert, a powdery mildew alert and a severe water stress level, and a
\* verdict that is not the highest.
C9_Temoin ==
    /\ analyse # AucuneAnalyse
    /\ analyse_prec # AucuneAnalyse
    /\ analyse.risque_infection.score = analyse_prec.risque_infection.score
    /\ analyse.protection_actuelle.score
          = analyse_prec.protection_actuelle.score
    /\ analyse_prec.decision.alerte_preventive = ""
    /\ analyse_prec.decision.alerte_oidium = ""
    /\ analyse_prec.bilan_hydrique.niveau = "CONFORTABLE"
    /\ analyse.decision.alerte_preventive # ""
    /\ analyse.decision.alerte_oidium # ""
    /\ analyse.bilan_hydrique.niveau = "STRESS FORT"
    /\ analyse.decision.urgence # "haute"

(***************************************************************************)
(* Claims on the protection (specification SpecProtection)                 *)
(***************************************************************************)
\* a protection has been computed for a parcel with a treatment that is not
\* in the future
ProtectionCalculee ==
    /\ pc \in {"protege", "analyse"}
    /\ protection_actuelle.dernier_traitement # AucunTraitement
    /\ protection_actuelle.date_actuelle
           >= protection_actuelle.dernier_traitement.date

\* the score calculer_protection_actuelle returns for the queried parcel on
\* date d
ScoreLe(d) ==
    CalculerProtectionActuelle(meteo_historique, traitements,
                               protection_actuelle.parcelle, d,
                               stade_manuel).score

\* C11: with the treatments, the stage and the store fixed, the protection
\* returned for a query date is never above the protection returned for an
\* earlier query date on or after the treatment date.
C11_ProtectionDecroissante ==
    ProtectionCalculee =>
        \A d1 \in DatesRequete :
            (/\ d1 >= protection_actuelle.dernier_traitement.date
             /\ d1 <= protection_actuelle.date_actuelle)
            => ScoreLe(d1) >= protection_actuelle.score

\* a protection that is still positive and strictly below the protection of
\* an earlier query date
C11_Temoin ==
    /\ ProtectionCalculee
    /\ protection_actuelle.score > 0
    /\ \E d1 \in DatesRequete :
          /\ d1 >= protection_actuelle.dernier_traitement.date
          /\ d1 < protection_actuelle.date_actuelle
          /\ ScoreLe(d1) > protection_actuelle.score

\* the stored rain, in tenths of mm, from the treatment date to the query
\* date, both included
PluieStockee ==
    LET dates == {d \in DOMAIN meteo_historique :
                     /\ d >= protection_actuelle.dernier_traitement.date
                     /\ d <= protection_actuelle.date_actuelle}
        RECURSIVE Somme(_)
        Somme(S) == IF S = {} THEN 0
                    ELSE LET d == CHOOSE x \in S : TRUE
                         IN  meteo_historique[d].precipitation
                             + Somme(S \ {d})
    IN  Somme(dates)

\* the leaching threshold of the latest treatment, in tenths of mm
SeuilLessivage ==
    10 * protection_actuelle.dernier_traitement.caracteristiques
             .lessivage_seuil_mm

\* C12: the protection is washed to 0, with the leaching factor, exactly
\* when the stored rain from the treatment date to the query date strictly
\* exceeds the leaching threshold of the product.
C12_LessivageParSomme ==
    ProtectionCalculee =>
        /\ PluieStockee > SeuilLessivage
           => /\ protection_actuelle.score = 0
              /\ protection_actuelle.facteur_limitant = "Lessivage"
        /\ PluieStockee <= SeuilLessivage
           => protection_actuelle.facteur_limitant # "Lessivage"

\* the days elapsed since the latest treatment
JoursEcoules ==
    protection_actuelle.date_actuelle
        - protection_actuelle.dernier_traitement.date

\* the time decay max(0, 10 - 10 n / persistence), in tenths times the
\* persistence
ValeurTemps ==
    LET p == protection_actuelle.dernier_traitement.caracteristiques
                 .persistance_jours
    IN  Max2(0, 100 * p - 100 * JoursEcoules)

\* the growth value max(0, 10 - n coef(stage)), in tenths times the
\* persistence
ValeurPousse ==
    LET p == protection_actuelle.dernier_traitement.caracteristiques
                 .persistance_jours
    IN  Max2(0, (100 - JoursEcoules * CoefPousse(stade_manuel)) * p)

\* the growth value applies to the product of the latest treatment
PousseApplicable ==
    protection_actuelle.dernier_traitement.caracteristiques.type
        \in {"contact", "penetrant"}

\* the lower of the two values, the time decay alone for a systemic product
ValeurRetenue ==
    IF PousseApplicable THEN Min2(ValeurTemps, ValeurPousse) ELSE ValeurTemps

\* the limiting factor names the growth dilution exactly when the growth
\* value applies and is strictly lower
FacteurConforme ==
    IF PousseApplicable /\ ValeurPousse < ValeurTemps
    THEN protection_actuelle.facteur_limitant = "Pousse (dilution)"
    ELSE protection_actuelle.facteur_limitant = "Persistance"

\* C13 as stated: without leaching the protection is the lower of the time
\* decay and of the growth value.
C13_ValeurExacte ==
    (ProtectionCalculee /\ protection_actuelle.facteur_limitant # "Lessivage")
    => /\ protection_actuelle.score
              * protection_actuelle.dernier_traitement.caracteristiques
                    .persistance_jours = ValeurRetenue
       /\ FacteurConforme

\* C13 amended: without leaching the protection is the lower of the time
\* decay and of the growth value, rounded to the nearest tenth.
C13_ValeurArrondie ==
    (ProtectionCalculee /\ protection_actuelle.facteur_limitant # "Lessivage")
    => LET p == protection_actuelle.dernier_traitement.caracteristiques
                    .persistance_jours
           ecart == protection_actuelle.score * p - ValeurRetenue
       IN  /\ 2 * ecart <= p
           /\ 2 * ecart >= 0 - p
           /\ FacteurConforme

\* a positive protection limited by the growth dilution
C13_Temoin ==
    /\ ProtectionCalculee
    /\ protection_actuelle.facteur_limitant = "Pousse (dilution)"
    /\ protection_actuelle.score > 0
    /\ ValeurPousse < ValeurTemps

\* the queried parcel has no logged treatment
SansTraitement ==
    /\ pc \in {"protege", "analyse"}
    /\ \A i \in 1..Len(traitements) :
          traitements[i].parcelle # protection_actuelle.parcelle

\* C14: for a parcel without logged treatment the protection is 0 with the
\* marker 'Aucun traitement' and no treatment record, whatever the other
\* parcel has, and the decision score is the simple risk score.
C14_SansTraitement ==
    SansTraitement =>
        /\ protection_actuelle.score = 0
        /\ protection_actuelle.facteur_limitant = "Aucun traitement"
        /\ protection_actuelle.dernier_traitement = AucunTraitement
        /\ pc = "analyse"
           => /\ analyse.protection_actuelle.score = 0
              /\ analyse.decision.score = analyse.risque_infection.score

\* an analysis of a parcel without treatment while the other parcel has one
C14_Temoin ==
    /\ SansTraitement
    /\ pc = "analyse"
    /\ traitements # <<>>
    /\ analyse.decision.score > 0

(***************************************************************************)
(* Claims on the infection potential (specification SpecIpi)               *)
(***************************************************************************)
\* C15: calculer_ipi returns 0 for a mean temperature strictly below 10,
\* strictly above 27 or missing, for every wetness duration.
C15_NulHorsBande ==
    (/\ pc = "ipi"
     /\ \/ meteo_evenement.temp_moy = NULL
        \/ meteo_evenement.temp_moy < 100
        \/ meteo_evenement.temp_moy > 270)
    => ipi_value = 0

\* a call above the band with a wetness duration for which the warmest row
\* of the table holds 100
C15_Temoin ==
    /\ pc = "ipi"
    /\ meteo_evenement.temp_moy = 275
    /\ duree_humectation_estimee = 70
    /\ ipi_value = 0

\* the call is made at a temperature key and at a duration key of its row
AuxCles ==
    /\ pc = "ipi"
    /\ \E t \in DOMAIN IPI_TABLE :
          /\ meteo_evenement.temp_moy = 10 * t
          /\ \E d \in DOMAIN IPI_TABLE[t] : duree_humectation_estimee = 10 * d

\* C16: at a temperature key T and a duration key D of row T, calculer_ipi
\* returns the cell IPI_TABLE[T][D].
C16_TableAuxCles ==
    AuxCles =>
        ipi_value = IPI_TABLE[meteo_evenement.temp_moy \div 10]
                             [duree_humectation_estimee \div 10]

\* the call at 16 degrees and 6 hours returns 20
C16_Temoin ==
    /\ pc = "ipi"
    /\ meteo_evenement.temp_moy = 160
    /\ duree_humectation_estimee = 60
    /\ ipi_value = 20

(***************************************************************************)
(* Claims on the heat sum and the stage forecast (specification SpecGdd)   *)
(***************************************************************************)
\* _calculer_gdd has returned for a parcel that is not dormant
GddCalcule == pc \in {"gdd", "prevu"} /\ stade_manuel # "repos"

\* the start of the accumulation: the biofix date of the parcel when it is
\* set, in the year of the query date and not after it, the 1st of March of
\* that year otherwise
DebutAccumulation ==
    LET biofix == parcelles["Parcelle 1"].date_debourrement
    IN  IF biofix = NULL THEN Jour(Annee(aujourdhui), 3, 1)
        ELSE IF Annee(biofix) # Annee(aujourdhui)
        THEN Jour(Annee(aujourdhui), 3, 1)
        ELSE IF biofix > aujourdhui THEN Jour(Annee(aujourdhui), 3, 1)
        ELSE biofix

\* the stored heat units of the store dates of a set
RECURSIVE SommeStockee(_)
SommeStockee(dates) ==
    IF dates = {} THEN 0
    ELSE LET d == CHOOSE x \in dates : TRUE
         IN  meteo_historique[d].gdd_jour + SommeStockee(dates \ {d})

\* C17: for a parcel that is not dormant, _calculer_gdd sums the stored heat
\* units of exactly the store dates from the start of the accumulation to
\* the query date, both included.
C17_SommeSurFenetre ==
    GddCalcule =>
        gdd_sum = SommeStockee({d \in DOMAIN meteo_historique :
                                   DebutAccumulation <= d /\ d <= aujourdhui})

\* an accumulation that starts on a biofix date after the 1st of March, with
\* stored heat between the two
C17_Temoin ==
    /\ GddCalcule
    /\ parcelles["Parcelle 1"].date_debourrement = Jour(2025, 3, 20)
    /\ aujourdhui > Jour(2025, 3, 20)
    /\ gdd_sum > 0
    /\ SommeStockee({d \in DOMAIN meteo_historique :
                        PremierMars <= d /\ d <= aujourdhui}) > gdd_sum

\* the thresholds of the table, in whole degree-days
SeuilsGdd == {180, 300, 500, 600, 750, 900, 1200, 1500, 1800}

\* C18: for a parcel that is not dormant, _calculer_gdd returns the heat sum
\* rounded down, the stage of the largest threshold the sum reaches (the
\* dormant stage below 180), and the smallest threshold strictly above the
\* sum (none from 1800), which is strictly greater than the returned sum.
C18_StadeParSeuils ==
    GddCalcule =>
        /\ 10 * resultat_gdd.gdd <= gdd_sum
        /\ gdd_sum < 10 * resultat_gdd.gdd + 10
        /\ gdd_sum < 1800 => resultat_gdd.stade_estime = "repos"
        /\ \A g \in SeuilsGdd :
              (/\ 10 * g <= gdd_sum
               /\ \A h \in SeuilsGdd : h > g => gdd_sum < 10 * h)
              => resultat_gdd.stade_estime = GDD_STADE_MAP[g]
        /\ gdd_sum >= 18000 => resultat_gdd.prochain_stade_gdd = NULL
        /\ gdd_sum < 18000
           => /\ resultat_gdd.prochain_stade_gdd \in SeuilsGdd
              /\ 10 * resultat_gdd.prochain_stade_gdd > gdd_sum
              /\ \A h \in SeuilsGdd :
                    10 * h > gdd_sum => resultat_gdd.prochain_stade_gdd <= h
              /\ resultat_gdd.prochain_stade_gdd > resultat_gdd.gdd

\* a heat sum of exactly 180 degree-days: bud break, next threshold 300
C18_Temoin ==
    /\ GddCalcule
    /\ gdd_sum = 1800
    /\ resultat_gdd.gdd = 180
    /\ resultat_gdd.stade_estime = "debourrement"
    /\ resultat_gdd.prochain_stade_gdd = 300

\* the first 7 store dates strictly after the query date, in ascending order
SeptDatesApres ==
    Trier({d \in DOMAIN meteo_historique :
              /\ d > aujourdhui
              /\ Cardinality({e \in DOMAIN meteo_historique :
                                 aujourdhui < e /\ e < d}) < 7})

\* the smallest number of dates, among the first 7 after the query date,
\* whose heat units reach the next threshold; -1 without one
JoursAttendus ==
    LET dates == SeptDatesApres
        cumul[n \in 0..Len(dates)] ==
            IF n = 0 THEN 0
            ELSE cumul[n - 1]
                 + Max2(0, meteo_historique[dates[n]].temp_moy - T_base)
        suffisants ==
            {n \in 1..Len(dates) :
                cumul[n] >= 10 * (resultat_gdd.prochain_stade_gdd
                                      - resultat_gdd.gdd)}
    IN  IF resultat_gdd.prochain_stade_gdd = NULL \/ suffisants = {} THEN -1
        ELSE CHOOSE n \in suffisants : \A m \in suffisants : n <= m

\* the store without the dates after the 7th date that follows the query date
StoreSurSeptJours ==
    LET dates == SeptDatesApres
        gardees == {d \in DOMAIN meteo_historique :
                       d <= aujourdhui \/ d <= dates[Len(dates)]}
    IN  [d \in gardees |-> meteo_historique[d]]

\* the forecast does not change when the dates after the 7th one are removed
SeptJoursSuffisent ==
    prevision_stade =
        PredireStadeFutur(StoreSurSeptJours, aujourdhui, resultat_gdd.gdd,
                          resultat_gdd.prochain_stade_gdd, stade_manuel)

\* C19 as stated: _predire_stade_futur returns the smallest number of dates,
\* among the first 7 store dates after the query date, whose heat units reach
\* the next threshold, -1 without one, whatever the later dates hold.
C19_PrevisionSeptJours ==
    pc = "prevu" => prevision_stade = JoursAttendus /\ SeptJoursSuffisent

\* C19 amended: the same for a parcel that is not dormant; for a dormant
\* parcel the forecast is -1.
C19_PrevisionHorsDormance ==
    pc = "prevu" =>
        /\ stade_manuel # "repos" => prevision_stade = JoursAttendus
        /\ stade_manuel = "repos" => prevision_stade = -1
        /\ SeptJoursSuffisent

\* a next threshold forecast after several days, with store dates after the
\* 7th one
C19_Temoin ==
    /\ pc = "prevu"
    /\ stade_manuel # "repos"
    /\ prevision_stade > 1
    /\ StoreSurSeptJours # meteo_historique

(***************************************************************************)
(* Claims on the stage updates (specification SpecConfig)                  *)
(***************************************************************************)
\* C20: in every step, a biofix date goes from set to None only for the
\* parcel named by an accepted call that sets its stage to 'repos'.
C20_BiofixEffaceParRepos ==
    [][\A n \in Parcelles :
          (/\ parcelles[n].date_debourrement # NULL
           /\ parcelles'[n].date_debourrement = NULL)
          => /\ dernier_appel'.nom_parcelle = n
             /\ dernier_appel'.nouveau_stade = "repos"
             /\ dernier_appel'.retour]_vars

\* a call to 'repos' has cleared the biofix date of its parcel while the
\* other parcel keeps its own
C20_Temoin ==
    /\ dernier_appel.retour
    /\ dernier_appel.nouveau_stade = "repos"
    /\ dernier_appel.date_avant # NULL
    /\ parcelles[dernier_appel.nom_parcelle].date_debourrement = NULL
    /\ \E n \in Parcelles : parcelles[n].date_debourrement # NULL

\* C21: a call with a stage that COEF_STADES does not hold, or with a name no
\* parcel bears, returns False and leaves the parcels and the saved
\* configuration as they were.
C21_AppelRefuseSansEffet ==
    [][(\/ dernier_appel'.nouveau_stade \notin COEF_STADES
        \/ dernier_appel'.nom_parcelle \notin Parcelles)
       => /\ ~dernier_appel'.retour
          /\ parcelles' = parcelles
          /\ config_persistee' = config_persistee]_vars

\* a call with an unknown stage and a date on a parcel that keeps its stage
\* and its biofix date
C21_Temoin ==
    /\ dernier_appel.nouveau_stade = "inconnu"
    /\ dernier_appel.nom_parcelle \in Parcelles
    /\ dernier_appel.date_debourrement # NULL
    /\ ~dernier_appel.retour
    /\ parcelles[dernier_appel.nom_parcelle].stade_actuel = "floraison"
    /\ parcelles[dernier_appel.nom_parcelle].date_debourrement
           = dernier_appel.date_avant
    /\ dernier_appel.date_avant # NULL
    /\ config_persistee = parcelles

\* C28: starting from the default configuration, where both parcels are
\* dormant without biofix date, after any sequence of calls of
\* update_parcelle_stade_et_date every parcel whose stage is 'repos' has no
\* biofix date, in memory and in the saved configuration.
C28_ReposSansBiofix ==
    /\ \A n \in DOMAIN parcelles :
          parcelles[n].stade_actuel = "repos"
              => parcelles[n].date_debourrement = NULL
    /\ \A n \in DOMAIN config_persistee :
          config_persistee[n].stade_actuel = "repos"
              => config_persistee[n].date_debourrement = NULL

\* a parcel that bore a biofix date is dormant again, after a call to 'repos'
\* that came with a date, while the other parcel is past bud break with its
\* own biofix date
C28_Temoin ==
    /\ dernier_appel.retour
    /\ dernier_appel.nouveau_stade = "repos"
    /\ dernier_appel.date_debourrement # NULL
    /\ dernier_appel.date_avant # NULL
    /\ parcelles[dernier_appel.nom_parcelle].stade_actuel = "repos"
    /\ \E n \in Parcelles : /\ parcelles[n].stade_actuel = "floraison"
                            /\ parcelles[n].date_debourrement # NULL

(***************************************************************************)
(* Claims on the risk models (specification SpecRisque)                    *)
(***************************************************************************)
\* C22: for both heuristic models the tier returned is the tier of the
\* score returned: FORT from 7, MOYEN from 4 to below 7, FAIBLE below 4
C22_NiveauSelonScoreRendu ==
    /\ risque_infection # AucunRisque
          => risque_infection.niveau
                 = NiveauRisque(risque_infection.score, 1)
    /\ risque_oidium # AucunRisque
          => risque_oidium.niveau = NiveauRisque(risque_oidium.score, 1)

(***************************************************************************)
(* Claims on the history of analyses (specification SpecAlertes)           *)
(***************************************************************************)
\* the places of the stored analyses: campaign position, position in it
C23_Places(campagnes) ==
    {<<c, i>> \in (1..Len(campagnes)) \X (1..(2 * Cardinality(DatesAnalyse))) :
        i <= Len(campagnes[c].analyses)}

\* at most one campaign per year and one analysis per parcel and date
C23_Unicite ==
    /\ \A c1, c2 \in 1..Len(historique_alertes) :
          historique_alertes[c1].annee = historique_alertes[c2].annee
              => c1 = c2
    /\ \A p1, p2 \in C23_Places(historique_alertes) :
          LET a1 == historique_alertes[p1[1]].analyses[p1[2]]
              a2 == historique_alertes[p2[1]].analyses[p2[2]]
          IN  a1.date = a2.date /\ a1.parcelle = a2.parcelle => p1 = p2

\* a call keeps every stored analysis of another parcel or date at its
\* place and puts the new snapshot at the place of the one of its pair
C23_Remplacement ==
    \A p \in C23_Places(historique_alertes) :
        LET avant == historique_alertes[p[1]].analyses[p[2]]
            appel == derniere_analyse'
        IN  /\ p \in C23_Places(historique_alertes')
            /\ historique_alertes'[p[1]].annee = historique_alertes[p[1]].annee
            /\ IF /\ avant.date = appel.date_analyse
                  /\ avant.parcelle = appel.parcelle
               THEN /\ historique_alertes'[p[1]].analyses[p[2]] =
                           [date |-> appel.date_analyse,
                            parcelle |-> appel.parcelle,
                            risque_mildiou |->
                                [score |-> appel.risque_infection.score],
                            decision |->
                                [urgence |-> appel.decision.urgence]]
                    /\ C23_Places(historique_alertes') =
                           C23_Places(historique_alertes)
               ELSE historique_alertes'[p[1]].analyses[p[2]] = avant

\* C23: from an empty history, whatever the calls of ajouter_analyse, there
\* is at most one analysis per parcel and date and one campaign per year,
\* and a call for a pair already stored replaces that analysis in place by
\* the new snapshot and leaves the others as they were
C23_UneAnalyseParPaire == []C23_Unicite /\ [][C23_Remplacement]_vars

\* an analysis of the first place has been replaced by the last call, after
\* others were stored behind it and in a second campaign
C23_Temoin ==
    /\ Len(historique_alertes) = 2
    /\ Len(historique_alertes[1].analyses) = 3
    /\ derniere_analyse.risque_infection.score = 100
    /\ historique_alertes[1].analyses[1] = AnalyseSimplifiee(derniere_analyse)
    /\ historique_alertes[1].analyses[2].risque_mildiou.score = 0
    /\ alertes_persistees = historique_alertes

(***************************************************************************)
(* Claims on overlapping refresh cycles (specification SpecConcurrence)    *)
(***************************************************************************)
\* the merge of instance i wrote a value of the API in field f of date d
C24_Ecrit(i, d, f) ==
    LET lot == instances[i].meteo_data_recent
    IN  /\ ~EstVide(lot)
        /\ d \in DOMAIN lot.jours
        /\ ~JourIgnore(lot.jours[d])
        /\ lot.jours[d][f] # NULL

\* C24: when two instances have run load, merge and save on the shared
\* store, overlapping or not, the persisted store holds, for every field a
\* merge wrote a non-null value in, a value written by one of the merges
C24_AucuneFusionPerdue ==
    (\A i \in Instances : instances[i].pc = "fini")
        => \A i \in Instances, d \in JoursSuivis, f \in ChampsBruts :
              C24_Ecrit(i, d, f)
                  => /\ d \in DOMAIN meteo_persistee
                     /\ \E j \in Instances :
                           /\ C24_Ecrit(j, d, f)
                           /\ meteo_persistee[d][f] =
                                  instances[j].meteo_data_recent.jours[d][f]

(***************************************************************************)
(* Claims on the daily step of the water balance (specification SpecBilan) *)
(***************************************************************************)
\* the step of the day that the loop is about to simulate, with the reserve
\* percentage `pct_initial` before the first day: Ks from the percentage of
\* the day before, effective rain, and the clamped reserve
C25_Pas(pct_initial) ==
    LET d == dates_utiles[i_date + 1]
        pluie == OuZero(meteo_historique[d].precipitation)
        etp0 == OuZero(meteo_historique[d].etp0)
        Kc == KcDuJour(d, i_date, Len(dates_utiles), gdd_cumul_actuel)
        \* the percentage of the day before exceeds 50; its thousandfold
        \* quotient by 50 otherwise
        plein == IF i_date = 0 THEN pct_initial > 50
                 ELSE rfu_max_mm > 0 /\ 100 * rfu_actuelle_mm > 50 * rfu_max_mm
        Ks == IF plein THEN 1000
              ELSE IF i_date = 0 THEN (1000 * pct_initial) \div 50
              ELSE IF rfu_max_mm > 0
              THEN (2000 * rfu_actuelle_mm) \div rfu_max_mm ELSE 0
        efficace == IF pluie > i_const_mm
                    THEN ((pluie - i_const_mm) * (1000 - f_runoff)) \div 10
                    ELSE 0
        libre == rfu_actuelle_mm + efficace - (Kc * etp0 * Ks) \div 10000
        borne == IF libre < 0 THEN 0
                 ELSE IF libre > rfu_max_mm THEN rfu_max_mm ELSE libre
    IN  /\ ks_actuel' = Ks
        /\ rfu_actuelle_mm' = borne
        /\ (efficace = 0 /\ Ks = 1000 /\ libre = borne)
              => rfu_actuelle_mm' = rfu_actuelle_mm - (Kc * etp0) \div 10

\* a day is being simulated by the step
C25_JourSimule == pc = "boucle" /\ i_date' = i_date + 1

\* C25 as stated: every simulated day applies the step, the reserve being at
\* 100 % of the capacity before the first day
C25_PasDepuisPlein == [][C25_JourSimule => C25_Pas(100)]_vars

\* C25: every simulated day applies the step, the reserve being at 100 % of
\* a positive capacity before the first day; the percentage of a reserve
\* without capacity is 0, before the first day as after the others
C25_PasSelonCapacite ==
    [][C25_JourSimule => C25_Pas(IF rfu_max_mm > 0 THEN 100 ELSE 0)]_vars

\* a third day has been simulated under stress: the reserve of the day
\* before was at most half the capacity, and Ks between 0 and 1
C25_Temoin ==
    /\ pc = "boucle"
    /\ i_date >= 3
    /\ rfu_max_mm > 0
    /\ ks_actuel > 0
    /\ ks_actuel < 1000
    /\ rfu_actuelle_mm > 0

(***************************************************************************)
(* Claims on the dates the water balance reads (specification SpecBilan)   *)
(***************************************************************************)
\* the part of a store inside the hydrological cycle, up to the day
C26_StoreDuCycle(hist, jour) ==
    [d \in {x \in DOMAIN hist : DateCycleDebut(jour) <= x /\ x <= jour} |->
        hist[d]]

\* C26: the result of calculer_bilan_rfu is the one of the store cut down
\* to the dates from the 1st of November of the cycle to today, so that two
\* stores equal on these dates give the same result, whatever they hold
\* before the cycle or after today
C26_BilanSelonCycle ==
    pc \in {"retour", "rapport"}
        => bilan_h = CalculerBilanRfu(
                         C26_StoreDuCycle(meteo_historique, aujourdhui),
                         aujourdhui, stade_manuel, rfu_max_mm,
                         gdd_cumul_actuel)

\* a balance returned on a store that holds a date before the cycle, a
\* forecast date and simulated dates that drew on the reserve
C26_Temoin ==
    /\ pc = "retour"
    /\ \E d \in DOMAIN meteo_historique : d < DateCycleDebut(aujourdhui)
    /\ \E d \in DOMAIN meteo_historique : d > aujourdhui
    /\ Len(dates_utiles) >= 2
    /\ bilan_h.rfu_pct < 1000
    /\ bilan_h.rfu_pct > 0

C29_InstantaneConserve ==
    [][/\ Len(traitements') >= Len(traitements)
       /\ \A i \in 1..Len(traitements) : traitements'[i] = traitements[i]
       /\ Len(traitements') > Len(traitements)
             => traitements'[Len(traitements')].caracteristiques
                    = CaracteristiquesProduit(
                          ChargerProduits(produits),
                          traitements'[Len(traitements')].produit)
       /\ (pc = "saisie" /\ pc' # "saisie"
              /\ protection_actuelle'.facteur_limitant # "Aucun traitement")
             => \E i \in 1..Len(traitements) :
                    protection_actuelle'.dernier_traitement = traitements[i]
      ]_vars

\* a treatment logged with the initial characteristics of its product, the
\* product edited since and logged again with the edited characteristics,
\* and a protection computed from the first record
C29_Temoin ==
    /\ pc = "protege"
    /\ Len(traitements) = 2
    /\ traitements[1].produit = "soufre"
    /\ traitements[1].date = JourTraitement + 3
    /\ traitements[1].caracteristiques = FONGICIDES["soufre"]
    /\ traitements[2].produit = "soufre"
    /\ traitements[2].date = JourTraitement
    /\ traitements[2].caracteristiques.persistance_jours = 4
    /\ "soufre" \notin DOMAIN produits
    /\ protection_actuelle.facteur_limitant = "Pousse (dilution)"
    /\ protection_actuelle.dernier_traitement = traitements[1]
    /\ protection_actuelle.score \in 1..99

\* C30: for every logged treatment whose product has a persistence and a
\* leaching threshold of zero or more, calculer_protection_actuelle does
\* not fail and returns a score within [0, 10] with a limiting-factor label,
\* whatever the query date and the stage.
C30_ProtectionSansEchec ==
    (/\ pc \in {"protege", "erreur"}
     /\ protection_actuelle.facteur_limitant # "Aucun traitement"
     /\ protection_actuelle.dernier_traitement.caracteristiques
            .persistance_jours >= 0
     /\ protection_actuelle.dernier_traitement.caracteristiques
            .lessivage_seuil_mm >= 0)
        => /\ pc = "protege"
           /\ protection_actuelle.score \in 0..100
           /\ protection_actuelle.facteur_limitant
                  \in {"Traitement futur", "Lessivage", "Pousse (dilution)",
                       "Persistance"}

=============================================================================
